---- MODULE Spec2Model ----
(***************************************************************************)
(* Forward renderer of the GTR framework (src/src/pipeline/renderer.cpp).  *)
(*                                                                         *)
(* The renderer is single threaded.  Every C++ function is an operator     *)
(* from a machine record m (scene, Renderer members, GL state, the GL      *)
(* command log) to the machine record after the call; loops are RECURSIVE  *)
(* operators.  The actions apply renderScene, showUI and the scene edits   *)
(* of the application to the variables.                                    *)
(*                                                                         *)
(* World geometry is one dimensional: a position is an integer on the X    *)
(* axis, a direction is one of "+X", "-X", "+Y", "-Y".  The near plane of  *)
(* a projection is kept in tenths of a unit (0.1 is 1), the rest in units. *)
(***************************************************************************)
EXTENDS Integers, Sequences, FiniteSets, TLC

VARIABLES
    scene,          \* SCN::Scene: entities, ambient_light, skybox_filename
    renderer,       \* Renderer members (flags, lights, render_calls, skybox_cubemap)
    gl,             \* the shared GL state registers
    fbo_count,      \* number of GFX::FBO objects allocated so far
    camera_current, \* Camera::current
    shaders,        \* programs GFX::Shader::Get finds (compiled from the atlas)
    log,            \* GL commands issued by the last renderScene, in order
    calls,          \* render path invocations of the last renderScene, in order
    ever_cast,      \* history: the lights whose cast_shadows was set in some frame
    shadow_passed,  \* history: the lights a shadow pass has been executed for
    process,        \* the process: position, outcome of the atlas load, steps run
    render_calls_live, \* RenderCall objects created with new and not deleted
    fragment        \* a fragment of a lit program: its inputs and results

vars ==
    <<scene, renderer, gl, fbo_count, camera_current, shaders, log, calls, ever_cast,
      shadow_passed, process, render_calls_live, fragment>>

-----------------------------------------------------------------------------
(* Program constants and model bounds *)

MAX_LIGHTS == 5

\* most light entities a scene of Spec / of SpecLit holds
MaxSceneLights == 2
MaxLitLights == 6

\* cosines of a fragment are multiples of 1 / CosSteps between 0 and 1; the
\* attenuation before the cone is a whole number up to MaxAtt
CosSteps == 4
MaxAtt == 2

\* projected coordinates of a fragment are multiples of 1/2 between
\* -ClipSteps/2 and ClipSteps/2
ClipSteps == 3

\* most light entities a scene of SpecShadowAtlas holds
MaxAtlasLights == 9

\* the live RenderCall objects are counted up to MaxLiveCalls, which stands
\* for that many or more
MaxLiveCalls == 3

Min(a, b) == IF a < b THEN a ELSE b
Abs(a) == IF a < 0 THEN 0 - a ELSE a

-----------------------------------------------------------------------------
(* Enumerations *)

FLAT == "FLAT"
TEXTURED == "TEXTURED"
LIGHTS == "LIGHTS"
RenderModes == {FLAT, TEXTURED, LIGHTS}

POINT == 1
SPOT == 2
DIRECTIONAL == 3

OPAQUE == "OPAQUE"
MASK == "MASK"
BLEND == "BLEND"


AtlasPrograms ==
    {"flat", "texture", "no_light", "light_multipass", "light_singlepass", "skybox"}

-----------------------------------------------------------------------------
(* GL state *)

\* CORE::getWindowSize() as a viewport rectangle <<x, y, w, h>>
WindowViewport == <<0, 0, 800, 600>>

GLDefault ==
    [blend |-> FALSE, blend_func |-> <<"ONE", "ZERO">>, cull_face |-> FALSE,
     depth_test |-> FALSE, depth_func |-> "LESS", polygon_mode |-> "FILL",
     viewport |-> WindowViewport, fbo |-> 0]

\* the registers the render paths share: blend, cull, depth test/function, fill mode
SharedState(g) ==
    [blend |-> g.blend, cull_face |-> g.cull_face, depth_test |-> g.depth_test,
     depth_func |-> g.depth_func, polygon_mode |-> g.polygon_mode]

glEnable(m, cap) == [m EXCEPT !.gl[cap] = TRUE]
glDisable(m, cap) == [m EXCEPT !.gl[cap] = FALSE]
glBlendFunc(m, s, d) == [m EXCEPT !.gl.blend_func = <<s, d>>]
glPolygonMode(m, mode) == [m EXCEPT !.gl.polygon_mode = mode]
glDepthFunc(m, f) == [m EXCEPT !.gl.depth_func = f]
glViewport(m, x, y, w, h) == [m EXCEPT !.gl.viewport = <<x, y, w, h>>]

Emit(m, ev) == [m EXCEPT !.log = Append(@, ev)]

glClear(m) == Emit(m, [op |-> "clear", fbo |-> m.gl.fbo])

-----------------------------------------------------------------------------
(* Shader programs and their uniforms.  A uniform holds <<v>> once the path *)
(* has uploaded v in the current invocation and <<>> while it still holds   *)
(* whatever an earlier draw left in the program.                            *)

ShadowmapSlot(i) ==
    CASE i = 0 -> "u_shadowmap[0]" [] i = 1 -> "u_shadowmap[1]"
      [] i = 2 -> "u_shadowmap[2]" [] i = 3 -> "u_shadowmap[3]"
      [] OTHER -> "u_shadowmap[4]"

UniformNames ==
    {"u_model", "u_viewprojection", "u_camera_position", "u_time", "u_color",
     "u_emissive_factor", "u_albedo_texture", "u_emissive_texture",
     "u_metallic_texture", "u_normal_texture", "u_has_normalmap",
     "u_occlusion_texture", "u_alpha_cutoff", "u_ambient_light", "u_light_type",
     "u_light_position", "u_light_front", "u_light_color", "u_light_info",
     "u_light_cone", "u_num_lights", "u_shadow_params", "u_shadowmap",
     "u_shadow_viewproj", "u_texture", "u_camera_nearfar"}
    \cup {ShadowmapSlot(i) : i \in 0..(MAX_LIGHTS - 1)}

\* the uniforms each program of the atlas declares: those of basic.vs and
\* those of its fragment shader
ProgramUniforms(program) ==
    {"u_camera_pos", "u_model", "u_viewprojection", "u_time"} \cup
    CASE program = "flat" -> {"u_color"}
      [] program = "texture" -> {"u_color", "u_texture", "u_alpha_cutoff"}
      [] program = "no_light" ->
            {"u_color", "u_albedo_texture", "u_emissive_texture", "u_metallic_texture",
             "u_normal_texture", "u_occlusion_texture", "u_emissive_factor",
             "u_alpha_cutoff", "u_has_normalmap", "u_ambient_light"}
      [] program = "light_multipass" ->
            {"u_color", "u_albedo_texture", "u_emissive_texture", "u_metallic_texture",
             "u_normal_texture", "u_occlusion_texture", "u_emissive_factor",
             "u_alpha_cutoff", "u_has_normalmap", "u_ambient_light",
             "u_light_position", "u_light_front", "u_light_color", "u_light_info",
             "u_light_cone", "u_shadow_params", "u_shadow_viewproj", "u_shadowmap"}
      [] program = "light_singlepass" ->
            {"u_color", "u_albedo_texture", "u_emissive_texture", "u_metallic_texture",
             "u_normal_texture", "u_emissive_factor", "u_alpha_cutoff",
             "u_has_normalmap", "u_ambient_light", "u_light_position",
             "u_light_front", "u_light_color", "u_light_info", "u_light_cone",
             "u_num_lights"}
      [] OTHER -> {}

\* the material uniforms the main function of each program reads on every
\* fragment or vertex
UniformsRead(program) ==
    {"u_model", "u_viewprojection"} \cup
    CASE program = "flat" -> {"u_color"}
      [] program = "texture" -> {"u_color", "u_texture", "u_alpha_cutoff"}
      [] program \in {"no_light", "light_multipass", "light_singlepass"} ->
            {"u_color", "u_albedo_texture", "u_emissive_texture", "u_metallic_texture",
             "u_normal_texture", "u_emissive_factor", "u_alpha_cutoff",
             "u_has_normalmap", "u_ambient_light"}
      [] OTHER -> {}

Stale == <<>>

NoCall ==
    [path |-> "none", entry |-> GLDefault, program |-> "none", enabled |-> FALSE,
     u |-> [n \in UniformNames |-> Stale], uploads |-> <<>>, draws |-> 0,
     oob |-> FALSE, args |-> [node |-> "none"]]

\* entry of a render path: remember the GL state found and the arguments
Enter(m, path, args) ==
    [m EXCEPT !.cur = [NoCall EXCEPT !.path = path, !.entry = m.gl, !.args = args]]

\* exit of a render path: the invocation and the GL state it leaves
Return(m, ret) ==
    [m EXCEPT !.calls = Append(@,
                 [path |-> m.cur.path, ret |-> ret, entry |-> m.cur.entry,
                  exit |-> m.gl, program |-> m.cur.program, u |-> m.cur.u,
                  uploads |-> m.cur.uploads, draws |-> m.cur.draws,
                  oob |-> m.cur.oob, args |-> m.cur.args, fbo |-> m.gl.fbo,
                  stack |-> m.stack]),
              !.cur = NoCall]

\* GFX::Shader::Get(name): the program, or null when the atlas has none
ShaderGet(m, name) == IF name \in m.shaders THEN name ELSE "null"

shaderEnable(m, program) == [m EXCEPT !.cur.program = program, !.cur.enabled = TRUE]
shaderDisable(m) == [m EXCEPT !.cur.enabled = FALSE]

\* shader->setUniform(name, v) and the array setters (count elements of v)
setUniform(m, name, v) ==
    [m EXCEPT !.cur.u[name] = <<v>>,
              !.cur.uploads = Append(@, [name |-> name, count |-> 1])]

\* count elements are read from a local array of Len(arr) slots; reading past
\* its end yields whatever follows it on the stack
setUniformArray(m, name, arr, count) ==
    [m EXCEPT !.cur.u[name] =
                  <<[i \in 1..count |->
                        IF i <= Len(arr) THEN arr[i] ELSE [out_of_bounds |-> i]]>>,
              !.cur.uploads = Append(@, [name |-> name, count |-> count]),
              !.cur.oob = @ \/ count > Len(arr)]

\* mesh->render(GL_TRIANGLES): one draw call with the state bound right now
meshRender(m) ==
    [m EXCEPT !.log = Append(@,
                 [op |-> "draw", path |-> m.cur.path, program |-> m.cur.program,
                  node |-> m.cur.args.node, fbo |-> m.gl.fbo,
                  state |-> SharedState(m.gl), blend_func |-> m.gl.blend_func,
                  viewport |-> m.gl.viewport,
                  u |-> m.cur.u, call |-> Len(m.calls) + 1]),
              !.cur.draws = @ + 1]

cameraToShader(m, camera) ==
    LET m1 == setUniform(m, "u_viewprojection", camera.viewprojection_matrix)
    IN  setUniform(m1, "u_camera_position", camera.eye)

-----------------------------------------------------------------------------
(* Scene data: cameras, meshes, materials, nodes *)

Neg(d) ==
    CASE d = "+X" -> "-X" [] d = "-X" -> "+X" [] d = "+Y" -> "-Y" [] OTHER -> "+Y"

NullMaterial ==
    [null |-> TRUE, alpha_mode |-> OPAQUE, two_sided |-> FALSE, textures |-> {}]

\* Camera::Camera() leaves an orthographic unit box
DefaultProjection ==
    [kind |-> "orthographic", left |-> -1, right |-> 1, top |-> 1, bottom |-> -1,
     fov |-> 0, aspect |-> 0, near |-> -10, far |-> 1]

\* camera.viewprojection_matrix is determined by the view (eye, front, up) and
\* the projection parameters
ViewProjection(eye, front, up, proj) ==
    [eye |-> eye, front |-> front, up |-> up, proj |-> proj]

NewCamera ==
    [eye |-> 0, front |-> "-X", up |-> "+Y", proj |-> DefaultProjection,
     viewprojection_matrix |-> ViewProjection(0, "-X", "+Y", DefaultProjection)]

\* camera.lookAt(eye, eye + front, up)
lookAt(camera, eye, front, up) ==
    [camera EXCEPT !.eye = eye, !.front = front, !.up = up,
                   !.viewprojection_matrix = ViewProjection(eye, front, up, camera.proj)]

setPerspective(camera, fov, aspect, near, far) ==
    LET proj == [kind |-> "perspective", left |-> 0, right |-> 0, top |-> 0,
                 bottom |-> 0, fov |-> fov, aspect |-> aspect, near |-> 10 * near,
                 far |-> far]
    IN  [camera EXCEPT !.proj = proj,
                       !.viewprojection_matrix =
                           ViewProjection(camera.eye, camera.front, camera.up, proj)]

\* near_tenths: the near plane in tenths
setOrthographic(camera, left, right, top, bottom, near_tenths, far) ==
    LET proj == [kind |-> "orthographic", left |-> left, right |-> right, top |-> top,
                 bottom |-> bottom, fov |-> 0, aspect |-> 0, near |-> near_tenths,
                 far |-> far]
    IN  [camera EXCEPT !.proj = proj,
                       !.viewprojection_matrix =
                           ViewProjection(camera.eye, camera.front, camera.up, proj)]

\* camera->testBoxInFrustum(center, halfsize) on the X axis: along the view
\* direction the box must reach the depth range, across it the lateral extent
testBoxInFrustum(camera, center, halfsize) ==
    LET d == center - camera.eye IN
    CASE camera.front = "+X" ->
            10 * (d + halfsize) >= camera.proj.near /\ d - halfsize <= camera.proj.far
      [] camera.front = "-X" ->
            10 * ((0 - d) + halfsize) >= camera.proj.near
            /\ (0 - d) - halfsize <= camera.proj.far
      [] OTHER -> Abs(d) <= halfsize + camera.proj.right

\* BoundingBoxSphereOverlap(BoundingBox(center, vec3(halfsize)), sphere, radius)
BoundingBoxSphereOverlap(center, halfsize, sphere, radius) ==
    Abs(center - sphere) <= halfsize + radius

Tex(material, channel) == IF channel \in material.textures THEN channel ELSE "null"

\* the arguments and renderer flags a render path invocation works with
PathArgs(m, node) ==
    [node |-> node.name, pos |-> node.pos, radius |-> node.mesh.radius,
     alpha_mode |-> node.material.alpha_mode, two_sided |-> node.material.two_sided,
     textures |-> node.material.textures,
     render_mode |-> m.r.render_mode, is_multipass |-> m.r.is_multipass,
     render_wireframe |-> m.r.render_wireframe, show_shadows |-> m.r.show_shadows,
     lights |-> m.r.lights]

-----------------------------------------------------------------------------
(* Steps shared by the render paths *)

\* if (render_wireframe) glPolygonMode(GL_FRONT_AND_BACK, GL_LINE);
WireframeMode(m) == IF m.r.render_wireframe THEN glPolygonMode(m, "LINE") ELSE m

BlendSelect(m, material) ==
    IF material.alpha_mode = BLEND
    THEN glBlendFunc(glEnable(m, "blend"), "SRC_ALPHA", "ONE_MINUS_SRC_ALPHA")
    ELSE glDisable(m, "blend")

CullSelect(m, material) ==
    IF material.two_sided THEN glDisable(m, "cull_face") ELSE glEnable(m, "cull_face")

AlphaCutoff(material) == IF material.alpha_mode = MASK THEN "alpha_cutoff" ELSE "epsilon"

\* texture ? texture : white
OrWhite(material, channel) == IF Tex(material, channel) # "null" THEN channel ELSE "white"

NothingToDo(node) == node.mesh.null \/ node.mesh.numVertices = 0 \/ node.material.null

-----------------------------------------------------------------------------
(* Renderer::renderSkybox *)

SphereNode ==
    [name |-> "sphere", pos |-> 0, visible |-> TRUE, children |-> <<>>,
     mesh |-> [null |-> FALSE, numVertices |-> 3, radius |-> 1],
     material |-> NullMaterial]

SkyboxState(m) ==
    LET g1 == glDisable(m, "blend")
        g2 == glDisable(g1, "depth_test")
        g3 == glDisable(g2, "cull_face")
    IN  WireframeMode(g3)

SkyboxDraw(m, cubemap) ==
    LET s2 == setUniform(m, "u_model", m.cam.eye)
        s3 == cameraToShader(s2, m.cam)
        s4 == setUniform(s3, "u_texture", [tex |-> cubemap, unit |-> 0])
        s5 == meshRender(s4)
        s6 == shaderDisable(s5)
        s7 == glPolygonMode(s6, "FILL")
    IN  glEnable(s7, "depth_test")

SkyboxShader(m, cubemap) ==
    IF ShaderGet(m, "skybox") = "null" THEN Return(m, "no_shader")
    ELSE Return(SkyboxDraw(shaderEnable(m, "skybox"), cubemap), "end")

renderSkybox(m0, cubemap) ==
    SkyboxShader(SkyboxState(Enter(m0, "skybox", PathArgs(m0, SphereNode))), cubemap)

-----------------------------------------------------------------------------
(* Renderer::renderMeshWithMaterial (TEXTURED) *)

TexturedState(m, material) ==
    LET g1 == BlendSelect(m, material)
        g2 == CullSelect(g1, material)
    IN  glEnable(g2, "depth_test")

TexturedDraw(m, node) ==
    LET s2 == setUniform(m, "u_model", node.pos)
        s3 == cameraToShader(s2, m.cam)
        s4 == setUniform(s3, "u_time", "t")
        s5 == setUniform(s4, "u_color", "material")
        s6 == setUniform(s5, "u_emissive_factor", "material")
        s7 == setUniform(s6, "u_albedo_texture",
                 [tex |-> OrWhite(node.material, "ALBEDO"), unit |-> 0])
        s8 == setUniform(s7, "u_emissive_texture",
                 [tex |-> OrWhite(node.material, "EMISSIVE"), unit |-> 1])
        s9 == setUniform(s8, "u_alpha_cutoff", AlphaCutoff(node.material))
        s10 == WireframeMode(s9)
        s11 == meshRender(s10)
        s12 == shaderDisable(s11)
        s13 == glDisable(s12, "blend")
    IN  glPolygonMode(s13, "FILL")

TexturedShader(m, node) ==
    IF ShaderGet(m, "texture") = "null" THEN Return(m, "no_shader")
    ELSE Return(TexturedDraw(shaderEnable(m, "texture"), node), "end")

renderMeshWithMaterial(m0, node) ==
    IF NothingToDo(node) THEN Return(Enter(m0, "texture", PathArgs(m0, node)), "nothing")
    ELSE TexturedShader(
             TexturedState(Enter(m0, "texture", PathArgs(m0, node)), node.material), node)

-----------------------------------------------------------------------------
(* Renderer::renderMeshWithMaterialFlat (FLAT, and every shadow pass) *)

FlatState(m, material) ==
    LET g1 == glDisable(m, "blend")
        g2 == CullSelect(g1, material)
    IN  glEnable(g2, "depth_test")

FlatDraw(m, node) ==
    LET s2 == setUniform(m, "u_model", node.pos)
        s3 == cameraToShader(s2, m.cam)
        s4 == meshRender(s3)
        s5 == shaderDisable(s4)
        s6 == glDisable(s5, "blend")
    IN  glPolygonMode(s6, "FILL")

FlatShader(m, node) ==
    IF ShaderGet(m, "flat") = "null" THEN Return(m, "no_shader")
    ELSE Return(FlatDraw(shaderEnable(m, "flat"), node), "end")

renderMeshWithMaterialFlat(m0, node) ==
    IF NothingToDo(node) THEN Return(Enter(m0, "flat", PathArgs(m0, node)), "nothing")
    ELSE IF node.material.alpha_mode = BLEND
    THEN Return(Enter(m0, "flat", PathArgs(m0, node)), "blend_skipped")
    ELSE FlatShader(FlatState(Enter(m0, "flat", PathArgs(m0, node)), node.material), node)

-----------------------------------------------------------------------------
(* Renderer::renderMeshWithMaterialLight (LIGHTS) *)

\* the values the renderer reads off a light entity; "light" names the entity
\* the value came from
LightPosition(idx, light) == [light |-> idx, pos |-> light.pos]
LightFront(light) == [dir |-> Neg(light.dir)]
LightColor(light) == [color |-> light.color, intensity |-> light.intensity]
LightInfo(light) ==
    [type |-> light.light_type, near |-> light.near_distance,
     far |-> light.max_distance, w |-> 0]
LightCone(light) == [cos_inner |-> light.cone_inner, cos_outer |-> light.cone_outer]

IdentityMatrix == [identity |-> TRUE]

\* a program choice that looks at the pass mode only
LitProgramNameByMode(m) ==
    IF m.r.is_multipass THEN "light_multipass" ELSE "light_singlepass"

LitProgramName(m) ==
    IF Len(m.r.lights) = 0 THEN "no_light"
    ELSE IF m.r.is_multipass THEN "light_multipass" ELSE "light_singlepass"

LitState(m, material) ==
    LET g1 == BlendSelect(m, material)
        g2 == CullSelect(g1, material)
    IN  glEnable(g2, "depth_test")

\* if (normal_texture) { u_normal_texture on unit 3; u_has_normalmap = 4 } else 0
NormalTexture(m, material) ==
    IF Tex(material, "NORMALMAP") # "null"
    THEN setUniform(setUniform(m, "u_normal_texture", [tex |-> "NORMALMAP", unit |-> 3]),
                    "u_has_normalmap", 4)
    ELSE setUniform(m, "u_has_normalmap", 0)

OcclusionTexture(m, material) ==
    IF Tex(material, "OCCLUSION") # "null"
    THEN setUniform(m, "u_occlusion_texture",
             [tex |-> "OCCLUSION",
              unit |-> IF Tex(material, "NORMALMAP") # "null" THEN 4 ELSE 3])
    ELSE m

\* the uniforms common to the three lit programs
LitCommonUniforms(m, node, camera) ==
    LET s2 == setUniform(m, "u_model", node.pos)
        s3 == cameraToShader(s2, camera)
        s4 == setUniform(s3, "u_time", "t")
        s5 == setUniform(s4, "u_color", "material")
        s6 == setUniform(s5, "u_emissive_factor", "material")
        s7 == setUniform(s6, "u_albedo_texture",
                 [tex |-> OrWhite(node.material, "ALBEDO"), unit |-> 0])
        s8 == setUniform(s7, "u_emissive_texture",
                 [tex |-> OrWhite(node.material, "EMISSIVE"), unit |-> 1])
        s9 == setUniform(s8, "u_metallic_texture",
                 [tex |-> OrWhite(node.material, "METALLIC_ROUGHNESS"), unit |-> 2])
        s10 == NormalTexture(s9, node.material)
        s12 == OcclusionTexture(s10, node.material)
        s13 == setUniform(s12, "u_alpha_cutoff", AlphaCutoff(node.material))
    IN  setUniform(s13, "u_ambient_light", "scene")

\* an overlap test that lets every light through
LightAlwaysReaches(node, light) == TRUE

\* the overlap test of the multipass loop: mesh bounding box against the
\* sphere of radius 2 * max_distance around the light
LightReachesMesh(node, light) ==
    BoundingBoxSphereOverlap(node.pos, node.mesh.radius, light.pos, light.max_distance * 2)

\* additive blending after a draw, ambient and emissive left as they are
MultipassAfterDrawKeeping(m) == glBlendFunc(glEnable(m, "blend"), "SRC_ALPHA", "ONE")

\* a multipass step that zeroes ambient and emissive and leaves the blending
MultipassAfterDrawSameBlend(m) ==
    setUniform(setUniform(m, "u_ambient_light", "zero"), "u_emissive_factor", "zero")

\* after each multipass draw: additive blending, ambient and emissive zeroed
MultipassAfterDraw(m) ==
    LET b1 == glEnable(m, "blend")
        b2 == glBlendFunc(b1, "SRC_ALPHA", "ONE")
        b3 == setUniform(b2, "u_ambient_light", "zero")
    IN  setUniform(b3, "u_emissive_factor", "zero")

MultipassShadowUniforms(m, light) ==
    IF light.shadowmap # 0
    THEN setUniform(setUniform(m, "u_shadowmap", [tex |-> light.shadowmap, unit |-> 8]),
                    "u_shadow_viewproj", light.shadow_viewproj)
    ELSE m

MultipassConeUniform(m, light) ==
    IF light.light_type = SPOT THEN setUniform(m, "u_light_cone", LightCone(light)) ELSE m

MultipassLightUniforms(m, idx, light) ==
    LET u1 == setUniform(m, "u_light_position", LightPosition(idx, light))
        u2 == setUniform(u1, "u_light_front", LightFront(light))
        u3 == setUniform(u2, "u_light_color", LightColor(light))
        u4 == setUniform(u3, "u_light_info", LightInfo(light))
        u5 == setUniform(u4, "u_shadow_params",
                 [enabled |-> IF light.shadowmap # 0 THEN 1 ELSE 0,
                  bias |-> light.shadow_bias])
        u6 == MultipassShadowUniforms(u5, light)
    IN  MultipassConeUniform(u6, light)

MultipassLightDraw(m, idx) ==
    MultipassAfterDraw(meshRender(MultipassLightUniforms(m, idx, m.scene.entities[idx])))

RECURSIVE MultipassLoop(_, _, _)
MultipassLoop(m, node, i) ==
    IF i > Len(m.r.lights) THEN m
    ELSE IF ~LightReachesMesh(node, m.scene.entities[m.r.lights[i]])
    THEN MultipassLoop(m, node, i + 1)
    ELSE MultipassLoop(MultipassLightDraw(m, m.r.lights[i]), node, i + 1)

MultipassBody(m, node) ==
    IF Len(m.r.lights) = 0 THEN meshRender(m) ELSE MultipassLoop(m, node, 1)

Multipass(m, node) == MultipassBody(glDepthFunc(m, "LEQUAL"), node)

\* the local arrays of the singlepass region: MAX_LIGHTS slots each, holding
\* what the stack held until a slot is written
Uninitialized(m) == [uninitialized |-> m.stack]

FreshArray(m) == [i \in 1..MAX_LIGHTS |-> Uninitialized(m)]

LocalArrays(m) ==
    [light_position |-> FreshArray(m), light_color |-> FreshArray(m),
     light_front |-> FreshArray(m), light_info |-> FreshArray(m),
     light_cone |-> FreshArray(m), shadow_params |-> FreshArray(m),
     shadow_viewprojs |-> FreshArray(m), shadowmaps |-> FreshArray(m), oob |-> FALSE]

\* arr[i] = v for the C index i; a store past the last slot is out of bounds
Store(arr, i, v) == IF i + 1 \in 1..Len(arr) THEN [arr EXCEPT ![i + 1] = v] ELSE arr

\* the count of the earlier variant: the number of lights, uncapped
SinglepassCountUncapped(num_lights) == num_lights

\* number of lights the singlepass region packs and uploads
SinglepassCount(num_lights) == Min(num_lights, MAX_LIGHTS)

\* the body of the packing loop for the C index i and the light entity idx
SinglepassPack(a, m, i, idx, light) ==
    [a EXCEPT
      !.light_position = Store(@, i, LightPosition(idx, light)),
      !.light_color = Store(@, i, LightColor(light)),
      !.light_front = Store(@, i, LightFront(light)),
      !.light_info = Store(@, i, LightInfo(light)),
      !.light_cone = IF light.light_type = SPOT THEN Store(@, i, LightCone(light)) ELSE @,
      !.shadow_params = Store(@, i,
          [enabled |-> IF light.shadowmap # 0 /\ m.r.show_shadows THEN 1 ELSE 0,
           bias |-> light.shadow_bias]),
      !.shadowmaps = Store(@, i, [tex |-> light.shadowmap]),
      !.shadow_viewprojs = Store(@, i,
          IF light.shadowmap # 0 THEN light.shadow_viewproj ELSE IdentityMatrix),
      !.oob = @ \/ i >= MAX_LIGHTS]

RECURSIVE SinglepassFill(_, _, _, _)
SinglepassFill(a, m, i, n) ==
    IF i >= n THEN a
    ELSE SinglepassFill(
             SinglepassPack(a, m, i, m.r.lights[i + 1], m.scene.entities[m.r.lights[i + 1]]),
             m, i + 1, n)

SinglepassShadowmapSlot(m, a, i) ==
    IF i < Len(m.r.lights) /\ i < MAX_LIGHTS /\ a.shadowmaps[i + 1].tex # 0
    THEN setUniform(m, ShadowmapSlot(i), [tex |-> a.shadowmaps[i + 1].tex, unit |-> 8 + i])
    ELSE m

RECURSIVE SinglepassShadowmaps(_, _, _, _)
SinglepassShadowmaps(m, a, i, n) ==
    IF i >= n THEN m
    ELSE SinglepassShadowmaps(SinglepassShadowmapSlot(m, a, i), a, i + 1, n)

\* a singlepass upload that binds the shadow matrices and maps whatever the toggle
SinglepassShadowsAlways(m, a, n) ==
    SinglepassShadowmaps(
        setUniformArray(m, "u_shadow_viewproj", a.shadow_viewprojs, n), a, 0, n)

SinglepassShadows(m, a, n) ==
    IF m.r.show_shadows
    THEN SinglepassShadowmaps(
             setUniformArray(m, "u_shadow_viewproj", a.shadow_viewprojs, n), a, 0, n)
    ELSE m

SinglepassUpload(m, a, n) ==
    LET m0 == [m EXCEPT !.cur.oob = @ \/ a.oob]
        u1 == setUniformArray(m0, "u_light_position", a.light_position, n)
        u2 == setUniformArray(u1, "u_light_color", a.light_color, n)
        u3 == setUniformArray(u2, "u_light_front", a.light_front, n)
        u4 == setUniformArray(u3, "u_light_info", a.light_info, n)
        u5 == setUniformArray(u4, "u_light_cone", a.light_cone, n)
        u6 == setUniform(u5, "u_num_lights", n)
        u7 == setUniformArray(u6, "u_shadow_params", a.shadow_params, n)
        u8 == SinglepassShadows(u7, a, n)
    IN  meshRender(u8)

SinglepassLights(m, n) == SinglepassUpload(m, SinglepassFill(LocalArrays(m), m, 0, n), n)

\* a singlepass region that draws once per light in range, as multipass does
SinglepassPerLight(m, node) == MultipassBody(m, node)

Singlepass(m, node) ==
    IF Len(m.r.lights) = 0
    THEN meshRender(setUniform(m, "u_light_type", 0))
    ELSE SinglepassLights(m, SinglepassCount(Len(m.r.lights)))

LitPasses(m, node) == IF m.r.is_multipass THEN Multipass(m, node) ELSE Singlepass(m, node)

\* a lit path that leaves the depth function of its passes
LitDrawKeepingDepthFunc(m, node) ==
    LET s2 == LitCommonUniforms(m, node, m.cam)
        s3 == WireframeMode(s2)
        s4 == LitPasses(s3, node)
        s5 == shaderDisable(s4)
        s6 == glDisable(s5, "blend")
    IN  glPolygonMode(s6, "FILL")

LitDraw(m, node) ==
    LET s2 == LitCommonUniforms(m, node, m.cam)
        s3 == WireframeMode(s2)
        s4 == LitPasses(s3, node)
        s5 == shaderDisable(s4)
        s6 == glDisable(s5, "blend")
        s7 == glPolygonMode(s6, "FILL")
    IN  glDepthFunc(s7, "LESS")

\* a lit path that does not test the shader it looked up
LitShaderUnchecked(m, node) ==
    Return(LitDraw(shaderEnable(m, LitProgramName(m)), node), "end")

LitShader(m, node) ==
    IF ShaderGet(m, LitProgramName(m)) = "null" THEN Return(m, "no_shader")
    ELSE Return(LitDraw(shaderEnable(m, LitProgramName(m)), node), "end")

renderMeshWithMaterialLight(m0, node) ==
    IF NothingToDo(node) THEN Return(Enter(m0, "light", PathArgs(m0, node)), "nothing")
    ELSE LitShader(LitState(Enter(m0, "light", PathArgs(m0, node)), node.material), node)

-----------------------------------------------------------------------------
(* Renderer::renderNode and Renderer::renderFrame *)

RECURSIVE renderNode(_, _, _)
RECURSIVE renderChildren(_, _, _, _)

\* the switch of the earlier variant: FLAT draws by the textured path and
\* TEXTURED has no case
renderNodeMeshEarlier(m, node, camera) ==
    IF ~node.mesh.null /\ ~node.material.null
       /\ testBoxInFrustum(camera, node.pos, node.mesh.radius)
    THEN CASE m.r.render_mode = FLAT -> renderMeshWithMaterial(m, node)
           [] m.r.render_mode = LIGHTS -> renderMeshWithMaterialLight(m, node)
           [] OTHER -> m
    ELSE m

\* the switch on render_mode
renderNodeMesh(m, node, camera) ==
    IF ~node.mesh.null /\ ~node.material.null
       /\ testBoxInFrustum(camera, node.pos, node.mesh.radius)
    THEN CASE m.r.render_mode = FLAT -> renderMeshWithMaterialFlat(m, node)
           [] m.r.render_mode = TEXTURED -> renderMeshWithMaterial(m, node)
           [] OTHER -> renderMeshWithMaterialLight(m, node)
    ELSE m

renderNode(m, node, camera) ==
    IF ~node.visible THEN m
    ELSE renderChildren(renderNodeMesh(m, node, camera), node.children, 1, camera)

renderChildren(m, children, i, camera) ==
    IF i > Len(children) THEN m
    ELSE renderChildren(renderNode(m, children[i], camera), children, i + 1, camera)

renderCall(m, ent, camera) ==
    IF ent.visible /\ ent.type = "PREFAB" /\ ent.prefab
    THEN renderNode(m, ent.root, camera)
    ELSE m

RECURSIVE RenderCallsLoop(_, _, _)
RenderCallsLoop(m, i, camera) ==
    IF i > Len(m.r.render_calls) THEN m
    ELSE RenderCallsLoop(renderCall(m, m.scene.entities[m.r.render_calls[i].ent], camera),
                         i + 1, camera)

\* a renderFrame that draws the skybox in every render mode
SkyboxInEveryMode(m) ==
    IF m.r.skybox_cubemap # 0 THEN renderSkybox(m, m.r.skybox_cubemap) ELSE m

SkyboxIfSet(m) ==
    IF m.r.skybox_cubemap # 0 /\ m.r.render_mode # FLAT
    THEN renderSkybox(m, m.r.skybox_cubemap)
    ELSE m

cameraEnable(m, camera) == [m EXCEPT !.cam = camera]

renderFrame(m, camera) ==
    LET g1 == glDisable(m, "blend")
        g2 == glEnable(g1, "depth_test")
        g3 == cameraEnable(g2, camera)
        g4 == glClear(g3)
        g5 == SkyboxIfSet(g4)
    IN  RenderCallsLoop(g5, 1, camera)

-----------------------------------------------------------------------------
(* Renderer::generateShadowmaps *)

checkVectors(vector1, vector2) == vector1 = vector2

ShadowCameraUp(front) == IF checkVectors(front, "-Y") THEN "-Y" ELSE "+Y"

\* a shadow projection that opens a SPOT light's frustum by its inner cone
ShadowProjectionInnerCone(camera, light) ==
    IF light.light_type = SPOT
    THEN setPerspective(camera, light.cone_inner * 2, 1, light.near_distance,
                        light.max_distance)
    ELSE IF light.light_type = DIRECTIONAL
    THEN setOrthographic(camera, 0 - (light.area \div 2), light.area \div 2,
                         light.area \div 2, 0 - (light.area \div 2), 1,
                         light.max_distance)
    ELSE camera

\* a shadow camera that keeps the projection it has
KeepProjection(camera, light) == camera

\* the projection the shadow camera gets for the light; a POINT light sets
\* none and the camera keeps the one it had
ShadowProjection(camera, light) ==
    IF light.light_type = SPOT
    THEN setPerspective(camera, light.cone_outer * 2, 1, light.near_distance,
                        light.max_distance)
    ELSE IF light.light_type = DIRECTIONAL
    THEN setOrthographic(camera, (0 - (light.area \div 2)), light.area \div 2,
                         (light.area \div 2) * 1,
                         (0 - (light.area \div 2)) * 1, 1, light.max_distance)
    ELSE camera

\* a shadow pass that creates no depth target
AllocateNothing(m, idx) == m

\* a shadow pass that creates a depth target every time
AllocateAlways(m, idx) ==
    [m EXCEPT !.fbo_count = @ + 1,
              !.scene.entities[idx].shadowmap_fbo = idx,
              !.scene.entities[idx].shadowmap = idx]

\* if (!light->shadowmap_fbo) { new GFX::FBO(); setDepthOnly(1024, 1024); ... }
\* the new FBO and its depth texture are named after the light that owns them
AllocateShadowmap(m, idx) ==
    IF m.scene.entities[idx].shadowmap_fbo # 0 THEN m
    ELSE [m EXCEPT !.fbo_count = @ + 1,
                   !.scene.entities[idx].shadowmap_fbo = idx,
                   !.scene.entities[idx].shadowmap = idx]

fboBind(m, fbo) == Emit([m EXCEPT !.gl.fbo = fbo], [op |-> "bind", fbo |-> fbo])
fboUnbind(m) == Emit([m EXCEPT !.gl.fbo = 0], [op |-> "unbind", fbo |-> m.gl.fbo])

\* a shadow camera that is aimed only for a light without a depth target
ShadowCameraFirstTime(camera, light) ==
    IF light.shadowmap # 0 THEN camera
    ELSE ShadowProjection(lookAt(camera, light.pos, light.dir, ShadowCameraUp(light.dir)),
                          light)

\* the shared shadow camera aimed for the light
ShadowCamera(camera, light) ==
    ShadowProjection(lookAt(camera, light.pos, light.dir, ShadowCameraUp(light.dir)), light)

\* light->shadow_viewproj = camera.viewprojection_matrix
StoreShadowViewproj(m, idx, camera) ==
    Emit([m EXCEPT !.scene.entities[idx].shadow_viewproj = camera.viewprojection_matrix],
         [op |-> "shadow_viewproj", fbo |-> m.scene.entities[idx].shadowmap_fbo,
          light |-> idx])

ShadowRender(m, camera, idx) ==
    LET b == fboBind(m, m.scene.entities[idx].shadowmap_fbo)
        f == renderFrame(b, camera)
        u == fboUnbind(f)
        v == StoreShadowViewproj(u, idx, camera)
    IN  [v EXCEPT !.passed = @ \cup {idx}]

\* one iteration of the loop over the frame's lights for a casting light
ShadowPass(m, camera, idx) == ShadowRender(AllocateShadowmap(m, idx), camera, idx)

\* a loop over the frame's lights that gives every light a shadow pass
RECURSIVE ShadowLoopAll(_, _, _)
ShadowLoopAll(m, camera, i) ==
    IF i > Len(m.r.lights) THEN m
    ELSE ShadowLoopAll(
             ShadowPass(m, ShadowCamera(camera, m.scene.entities[m.r.lights[i]]),
                        m.r.lights[i]),
             ShadowCamera(camera, m.scene.entities[m.r.lights[i]]), i + 1)

RECURSIVE ShadowLoop(_, _, _)
ShadowLoop(m, camera, i) ==
    IF i > Len(m.r.lights) THEN m
    ELSE IF ~m.scene.entities[m.r.lights[i]].cast_shadows
    THEN ShadowLoop(m, camera, i + 1)
    ELSE ShadowLoop(
             ShadowPass(m, ShadowCamera(camera, m.scene.entities[m.r.lights[i]]),
                        m.r.lights[i]),
             ShadowCamera(camera, m.scene.entities[m.r.lights[i]]), i + 1)

\* a generator that leaves render_mode as its passes had it
RestoreNothing(m, prev) == m

RestoreRenderMode(m, prev) == [m EXCEPT !.r.render_mode = prev]

generateShadowmaps(m) ==
    RestoreRenderMode(ShadowLoop([m EXCEPT !.r.render_mode = FLAT], NewCamera, 1),
                      m.r.render_mode)

-----------------------------------------------------------------------------
(* Renderer::setupScene, Renderer::debugShadowmaps, Renderer::renderScene *)

SortRenderCalls(first, second) == first.distance_to_camera > second.distance_to_camera

\* std::sort(render_calls.begin(), render_calls.end(), SortRenderCalls)
RECURSIVE Insert(_, _)
Insert(rc, sorted) ==
    IF sorted = <<>> THEN <<rc>>
    ELSE IF SortRenderCalls(rc, Head(sorted)) THEN <<rc>> \o sorted
    ELSE <<Head(sorted)>> \o Insert(rc, Tail(sorted))

RECURSIVE Sort(_)
Sort(s) == IF s = <<>> THEN <<>> ELSE Insert(s[Len(s)], Sort(SubSeq(s, 1, Len(s) - 1)))

\* the body of the loop over scene->entities
CollectEntity(m, i, ent, camera) ==
    IF ~ent.visible THEN m
    ELSE IF ent.type = "PREFAB"
    THEN [m EXCEPT !.rc_live = Min(@ + 1, MaxLiveCalls),
                   !.r.render_calls = Append(@,
             [ent |-> i, distance_to_camera |-> Abs(camera.eye - ent.root.pos)])]
    ELSE IF ent.type = "LIGHT"
    THEN [m EXCEPT !.r.lights = Append(@, i)]
    ELSE m

RECURSIVE EntitiesLoop(_, _, _)
EntitiesLoop(m, i, camera) ==
    IF i > Len(m.scene.entities) THEN m
    ELSE EntitiesLoop(CollectEntity(m, i, m.scene.entities[i], camera), i + 1, camera)

\* a setupScene that leaves the render calls in entity order
SortCallsNot(m) == m

SortCalls(m) == [m EXCEPT !.r.render_calls = Sort(@)]

\* a setupScene that does not clear the light list of the frame before
CollectSceneKeeping(m, camera) ==
    SortCalls(EntitiesLoop(
        [m EXCEPT !.r.skybox_cubemap = IF m.scene.skybox_filename # "" THEN -1 ELSE 0,
                  !.r.render_calls = <<>>], 1, camera))

\* the first half of setupScene: skybox, lights and render calls of the frame
CollectScene(m, camera) ==
    LET s2 == [m EXCEPT !.r.skybox_cubemap = IF m.scene.skybox_filename # "" THEN -1 ELSE 0,
                        !.r.lights = <<>>, !.r.render_calls = <<>>]
        s3 == EntitiesLoop(s2, 1, camera)
    IN  SortCalls(s3)

setupScene(m, camera) == generateShadowmaps(CollectScene(m, camera))

QuadNode ==
    [name |-> "quad", pos |-> 0, visible |-> TRUE, children |-> <<>>,
     mesh |-> [null |-> FALSE, numVertices |-> 3, radius |-> 1],
     material |-> NullMaterial]

DebugQuad(m, light, x) ==
    LET s1 == shaderEnable(m, "linear_depth")
        s2 == setUniform(s1, "u_camera_nearfar",
                 [near |-> light.near_distance, far |-> light.max_distance])
        s3 == glViewport(s2, x, 100, 256, 256)
        s4 == setUniform(s3, "u_texture", [tex |-> light.shadowmap, unit |-> 0])
        s5 == meshRender(s4)
    IN  shaderDisable(s5)

RECURSIVE DebugLoop(_, _, _)
DebugLoop(m, i, x) ==
    IF i > Len(m.r.lights) THEN m
    ELSE IF m.scene.entities[m.r.lights[i]].shadowmap = 0 THEN DebugLoop(m, i + 1, x)
    ELSE DebugLoop(DebugQuad(m, m.scene.entities[m.r.lights[i]], x), i + 1, x + 260)

debugShadowmaps(m) ==
    LET e == Enter(m, "debug", PathArgs(m, QuadNode))
        g1 == glDisable(e, "depth_test")
        g2 == glDisable(g1, "blend")
        g3 == DebugLoop(g2, 1, 300)
        g4 == glViewport(g3, 0, 0, 800, 600)
    IN  Return(g4, "end")

DebugIfShown(m) == IF m.r.show_shadowmaps THEN debugShadowmaps(m) ELSE m

ClearHistory(m) == [m EXCEPT !.log = <<>>, !.calls = <<>>]

\* a frame that draws the main pass first and generates the shadowmaps after it
renderSceneShadowsLast(m, camera) ==
    LET c == CollectScene(ClearHistory(m), camera)
        f == renderFrame(c, camera)
        s == generateShadowmaps(f)
    IN  DebugIfShown(s)

\* one displayed frame; the command log starts empty
renderScene(m, camera) ==
    LET s == setupScene(ClearHistory(m), camera)
        f == renderFrame(s, camera)
    IN  DebugIfShown(f)

-----------------------------------------------------------------------------
(* Renderer::Renderer and Renderer::showUI *)

RendererInit ==
    [render_wireframe |-> FALSE, render_mode |-> LIGHTS, is_multipass |-> TRUE,
     show_shadowmaps |-> FALSE, show_shadows |-> FALSE, skybox_cubemap |-> 0,
     lights |-> <<>>, render_calls |-> <<>>]

\* the process at the atlas load of the constructor, the members assigned
AtLoadAtlas(loads) == [pc |-> "LoadAtlas", atlas_loads |-> loads, steps |-> <<>>]

\* a constructor that goes on whatever LoadAtlas returned
ConstructorUnchecked(p) ==
    [p EXCEPT !.pc = "running",
              !.steps = @ \o <<"LoadAtlas", "checkGLErrors", "createSphere">>]

\* if (!LoadAtlas(..)) exit(1); checkGLErrors(); sphere.createSphere(1.0f);
Constructor(p) ==
    IF p.atlas_loads
    THEN [p EXCEPT !.pc = "running",
                   !.steps = @ \o <<"LoadAtlas", "checkGLErrors", "createSphere">>]
    ELSE [p EXCEPT !.pc = "exited", !.steps = Append(@, "LoadAtlas")]

\* one widget of the panel changed by the user
showUI(m, widget, value) ==
    CASE widget = "Wireframe" -> [m EXCEPT !.r.render_wireframe = value]
      [] widget = "Render Mode" -> [m EXCEPT !.r.render_mode = value]
      [] widget = "PassMode" /\ m.r.render_mode = LIGHTS ->
            [m EXCEPT !.r.is_multipass = value]
      [] widget = "Show shadowmaps" /\ m.r.render_mode = LIGHTS ->
            [m EXCEPT !.r.show_shadowmaps = value]
      [] widget = "Enable Shadows" /\ m.r.render_mode = LIGHTS /\ ~m.r.is_multipass ->
            [m EXCEPT !.r.show_shadows = value]
      [] OTHER -> m

-----------------------------------------------------------------------------
(* Scenes the application loads, and its edits between frames *)

Mesh(radius) == [null |-> FALSE, numVertices |-> 3, radius |-> radius]

Material(alpha_mode, two_sided, textures) ==
    [null |-> FALSE, alpha_mode |-> alpha_mode, two_sided |-> two_sided,
     textures |-> textures]

Node(name, pos, material, children) ==
    [name |-> name, pos |-> pos, visible |-> TRUE, mesh |-> Mesh(1),
     material |-> material, children |-> children]

Prefab(root) == [type |-> "PREFAB", visible |-> TRUE, prefab |-> TRUE, root |-> root]

Light(light_type, pos, dir, near_distance, max_distance, area) ==
    [type |-> "LIGHT", visible |-> TRUE, light_type |-> light_type, pos |-> pos,
     dir |-> dir, near_distance |-> near_distance, max_distance |-> max_distance,
     cone_inner |-> 30, cone_outer |-> 45, area |-> area,
     color |-> "white", intensity |-> 1, cast_shadows |-> FALSE, shadow_bias |-> 1,
     shadowmap_fbo |-> 0, shadowmap |-> 0, shadow_viewproj |-> IdentityMatrix]

SpotNear == Light(SPOT, 0, "+X", 1, 4, 0)
PointNear == Light(POINT, 2, "+X", 1, 3, 0)
DirectionalFar == Light(DIRECTIONAL, 20, "-Y", 0, 2, 4)

LightKinds == {SpotNear, PointNear, DirectionalFar}

NodeA ==
    Node("a", 1, Material(OPAQUE, FALSE, {"ALBEDO"}),
         << Node("b", 2, Material(BLEND, TRUE, {}), <<>>) >>)

SceneA == [entities |-> << Prefab(NodeA) >>, skybox_filename |-> "sky"]

\* three prefabs, not in order of distance
SceneB ==
    [entities |-> << Prefab(Node("near", 1, Material(OPAQUE, FALSE, {"ALBEDO"}), <<>>)),
                     Prefab(Node("far", 3, Material(BLEND, FALSE, {}), <<>>)),
                     Prefab(Node("mid", 2, Material(MASK, FALSE, {}), <<>>)) >>,
     skybox_filename |-> ""]

Scenes == {SceneA}

\* the scene of SpecLit: one opaque mesh, lights are added one by one
LitScene ==
    [entities |-> << Prefab(Node("a", 1, Material(OPAQUE, FALSE, {"ALBEDO"}), <<>>)) >>,
     skybox_filename |-> ""]

LitLightKinds == {SpotNear, DirectionalFar}

Perspective(near, far) ==
    [kind |-> "perspective", left |-> 0, right |-> 0, top |-> 0, bottom |-> 0,
     fov |-> 45, aspect |-> 1, near |-> 10 * near, far |-> far]

MainCamera(eye) ==
    [eye |-> eye, front |-> "+X", up |-> "+Y", proj |-> Perspective(0, 10),
     viewprojection_matrix |-> ViewProjection(eye, "+X", "+Y", Perspective(0, 10))]

Cameras == {MainCamera(0)}

LightIndexes(m) == {i \in 1..Len(m.scene.entities) : m.scene.entities[i].type = "LIGHT"}

\* application edits of the scene between two frames
SetVisible(m, idx, value) == [m EXCEPT !.scene.entities[idx].visible = value]
SetCastShadows(m, idx, value) == [m EXCEPT !.scene.entities[idx].cast_shadows = value]
AddLight(m, light) == [m EXCEPT !.scene.entities = Append(@, light)]

-----------------------------------------------------------------------------
(* The state machine: each step is one iteration of the application loop,  *)
(* an edit (of the panel or of the scene) followed by renderScene.          *)

\* the machine record of the current state
M(g) ==
    [scene |-> scene, r |-> renderer, gl |-> gl, fbo_count |-> fbo_count,
     cam |-> camera_current, shaders |-> shaders, log |-> log, calls |-> calls,
     cur |-> NoCall, stack |-> g, passed |-> shadow_passed,
     rc_live |-> render_calls_live]

\* the lights whose cast_shadows flag is set
CastingNow(m) == {idx \in LightIndexes(m) : m.scene.entities[idx].cast_shadows}

Commit(m) ==
    /\ scene' = m.scene
    /\ renderer' = m.r
    /\ gl' = m.gl
    /\ fbo_count' = m.fbo_count
    /\ camera_current' = m.cam
    /\ shaders' = m.shaders
    /\ log' = m.log
    /\ calls' = m.calls
    /\ ever_cast' = ever_cast \cup CastingNow(m)
    /\ shadow_passed' = m.passed
    /\ process' = process
    /\ render_calls_live' = m.rc_live
    /\ fragment' = fragment

InitWith(s) ==
    /\ scene = s
    /\ renderer = RendererInit
    /\ gl = GLDefault
    /\ fbo_count = 0
    /\ camera_current = NewCamera
    /\ shaders = AtlasPrograms
    /\ log = <<>>
    /\ calls = <<>>
    /\ ever_cast = {}
    /\ shadow_passed = {}
    /\ process = Constructor(AtLoadAtlas(TRUE))
    /\ render_calls_live = 0
    /\ fragment = <<>>

Init == \E s \in Scenes : InitWith(s)

\* a frame of the application loop, which a live process runs after the
\* renderer has been constructed
Frame(m) ==
    /\ process.pc = "running"
    /\ \E camera \in Cameras : Commit(renderScene(m, camera))

RenderAgain == Frame(M("g0"))

UIRenderMode == \E v \in RenderModes : Frame(showUI(M("g0"), "Render Mode", v))

UIShowShadowmaps ==
    /\ renderer.render_mode = LIGHTS
    /\ Frame(showUI(M("g0"), "Show shadowmaps", ~renderer.show_shadowmaps))

ToggleVisible ==
    \E idx \in LightIndexes(M("g0")) :
        Frame(SetVisible(M("g0"), idx, ~scene.entities[idx].visible))

ToggleCastShadows ==
    \E idx \in LightIndexes(M("g0")) :
        Frame(SetCastShadows(M("g0"), idx, ~scene.entities[idx].cast_shadows))

AddSceneLight ==
    /\ Cardinality(LightIndexes(M("g0"))) < MaxSceneLights
    /\ \E light \in LightKinds : Frame(AddLight(M("g0"), light))

Next ==
    \/ RenderAgain
    \/ UIRenderMode
    \/ UIShowShadowmaps
    \/ ToggleVisible
    \/ ToggleCastShadows
    \/ AddSceneLight

Spec == Init /\ [][Next]_vars

-----------------------------------------------------------------------------
(* SpecLit: the lit path under many lights.  One mesh, LIGHTS mode, lights  *)
(* appended up to MaxLitLights, both pass modes, the singlepass shadow      *)
(* toggle; the first light may cast shadows.  g is what the stack holds     *)
(* where the singlepass region puts its local arrays.                       *)

StackContents == {"g0", "g1"}

InitLit == InitWith(LitScene)

LitRenderAgain == \E g \in StackContents : Frame(M(g))

LitPassMode ==
    \E g \in StackContents : Frame(showUI(M(g), "PassMode", ~renderer.is_multipass))

LitEnableShadows ==
    /\ ~renderer.is_multipass
    /\ \E g \in StackContents :
           Frame(showUI(M(g), "Enable Shadows", ~renderer.show_shadows))

LitAddLight ==
    /\ Cardinality(LightIndexes(M("g0"))) < MaxLitLights
    /\ \E light \in LitLightKinds, g \in StackContents : Frame(AddLight(M(g), light))

LitCastShadows ==
    /\ Len(scene.entities) >= 2
    /\ \E g \in StackContents :
           Frame(SetCastShadows(M(g), 2, ~scene.entities[2].cast_shadows))

NextLit ==
    \/ LitRenderAgain
    \/ LitPassMode
    \/ LitEnableShadows
    \/ LitAddLight
    \/ LitCastShadows

SpecLit == InitLit /\ [][NextLit]_vars

-----------------------------------------------------------------------------
(* SpecAtlas: the renderer constructed over an atlas that lacks one of the  *)
(* programs of the material paths, so that GFX::Shader::Get returns null.   *)

Atlases == {AtlasPrograms} \cup {AtlasPrograms \ {p} : p \in AtlasPrograms}

InitAtlas ==
    /\ scene = SceneA
    /\ renderer = RendererInit
    /\ gl = GLDefault
    /\ fbo_count = 0
    /\ camera_current = NewCamera
    /\ shaders \in Atlases
    /\ log = <<>>
    /\ calls = <<>>
    /\ ever_cast = {}
    /\ shadow_passed = {}
    /\ process = Constructor(AtLoadAtlas(TRUE))
    /\ render_calls_live = 0
    /\ fragment = <<>>

NextAtlas ==
    \/ RenderAgain
    \/ UIRenderMode
    \/ LitPassMode
    \/ AddSceneLight
    \/ LitCastShadows

SpecAtlas == InitAtlas /\ [][NextAtlas]_vars

-----------------------------------------------------------------------------
(* SpecStart: the process from the atlas load of the constructor on; the    *)
(* atlas file loads or fails to load                                        *)

InitStart ==
    /\ scene \in {SceneA, SceneB}
    /\ renderer = RendererInit
    /\ gl = GLDefault
    /\ fbo_count = 0
    /\ camera_current = NewCamera
    /\ shaders = {}
    /\ log = <<>>
    /\ calls = <<>>
    /\ ever_cast = {}
    /\ shadow_passed = {}
    /\ \E loads \in BOOLEAN : process = AtLoadAtlas(loads)
    /\ render_calls_live = 0
    /\ fragment = <<>>

Construct ==
    /\ process.pc = "LoadAtlas"
    /\ process' = Constructor(process)
    /\ shaders' = IF process.atlas_loads THEN AtlasPrograms ELSE {}
    /\ UNCHANGED <<scene, renderer, gl, fbo_count, camera_current, log, calls,
                   ever_cast, shadow_passed, render_calls_live, fragment>>

\* the application hides or shows a prefab
TogglePrefabVisible ==
    \E idx \in DOMAIN scene.entities \ LightIndexes(M("g0")) :
        Frame(SetVisible(M("g0"), idx, ~scene.entities[idx].visible))

NextStart ==
    \/ Construct
    \/ RenderAgain
    \/ UIRenderMode
    \/ AddSceneLight
    \/ ToggleCastShadows
    \/ TogglePrefabVisible

SpecStart == InitStart /\ [][NextStart]_vars

-----------------------------------------------------------------------------
(* SpecPaths: one prefab whose node tree has a hidden node, a node without  *)
(* a mesh, a node without a material and a node behind the camera, each     *)
(* with children, and meshes of the three alpha modes; the panel switches   *)
(* the render mode, the pass mode and the wireframe                         *)

NoMesh == [null |-> TRUE, numVertices |-> 0, radius |-> 0]

SceneC ==
    [entities |-> << Prefab(
        Node("root", 1, Material(OPAQUE, FALSE, {"ALBEDO"}),
             << [Node("hidden", 2, Material(MASK, FALSE, {}),
                      << Node("under_hidden", 2, Material(OPAQUE, FALSE, {}), <<>>) >>)
                     EXCEPT !.visible = FALSE],
                [Node("group", 2, Material(OPAQUE, FALSE, {}),
                      << Node("leaf", 3, Material(BLEND, TRUE, {}), <<>>) >>)
                     EXCEPT !.mesh = NoMesh],
                Node("bare", 2, NullMaterial, <<>>),
                Node("behind", -5, Material(OPAQUE, FALSE, {}),
                     << Node("front", 4, Material(MASK, FALSE, {}), <<>>) >>) >>)) >>,
     skybox_filename |-> ""]

UIWireframe == Frame(showUI(M("g0"), "Wireframe", ~renderer.render_wireframe))

NextPaths ==
    \/ RenderAgain
    \/ UIRenderMode
    \/ UIWireframe
    \/ LitPassMode
    \/ AddSceneLight
    \/ ToggleCastShadows

SpecPaths == InitWith(SceneC) /\ [][NextPaths]_vars

-----------------------------------------------------------------------------
(* SpecShadowAtlas: Renderer::generateShadowAtlas, the variant of the shadow *)
(* generator that gives every casting light a cell of a grid; the renderer   *)
(* never calls it, here it takes the place of generateShadowmaps after the   *)
(* entities have been collected                                              *)

\* the pass of one casting light into the cell of column i, row j; a cell is
\* size * 0.25 = 256 wide and high
ShadowAtlasRender(m, camera, idx, i, j) ==
    LET b == fboBind(m, m.scene.entities[idx].shadowmap_fbo)
        v == glViewport(b, i * 256, j * 256, 256, 256)
        s == Emit(v, [op |-> "scissor", fbo |-> m.scene.entities[idx].shadowmap_fbo,
                      light |-> idx, rect |-> <<i * 256, j * 256, 256, 256>>])
        f == renderFrame(s, camera)
        c == Emit(f, [op |-> "clear_depth_test", fbo |-> m.scene.entities[idx].shadowmap_fbo])
        u == fboUnbind(c)
        w == StoreShadowViewproj(u, idx, camera)
    IN  [w EXCEPT !.passed = @ \cup {idx}]

\* the loop over the frame's lights: i++, and at i % 2 = 0 the next row
RECURSIVE ShadowAtlasLoop(_, _, _, _, _)
ShadowAtlasLoop(m, camera, k, i, j) ==
    IF k > Len(m.r.lights) THEN m
    ELSE IF ~m.scene.entities[m.r.lights[k]].cast_shadows
    THEN ShadowAtlasLoop(m, camera, k + 1, i, j)
    ELSE ShadowAtlasLoop(
             ShadowAtlasRender(AllocateShadowmap(m, m.r.lights[k]),
                               ShadowCamera(camera, m.scene.entities[m.r.lights[k]]),
                               m.r.lights[k], i, j),
             ShadowCamera(camera, m.scene.entities[m.r.lights[k]]), k + 1,
             IF (i + 1) % 2 = 0 THEN 0 ELSE i + 1,
             IF (i + 1) % 2 = 0 THEN j + 1 ELSE j)

generateShadowAtlas(m) ==
    RestoreRenderMode(
        ShadowAtlasLoop([m EXCEPT !.r.render_mode = FLAT], NewCamera, 1, 0, 0),
        m.r.render_mode)

InitShadowAtlas ==
    /\ \E n \in 0..MaxAtlasLights :
         \E casts \in [1..n -> BOOLEAN] :
           scene = [LitScene EXCEPT !.entities =
                       @ \o [k \in 1..n |-> [SpotNear EXCEPT !.cast_shadows = casts[k]]]]
    /\ renderer = RendererInit
    /\ gl = GLDefault
    /\ fbo_count = 0
    /\ camera_current = NewCamera
    /\ shaders = AtlasPrograms
    /\ log = <<>>
    /\ calls = <<>>
    /\ ever_cast = {}
    /\ shadow_passed = {}
    /\ process = Constructor(AtLoadAtlas(TRUE))
    /\ render_calls_live = 0
    /\ fragment = <<>>

\* the entities are collected and the shadow atlas is generated
SetupShadowAtlas ==
    \E camera \in Cameras :
        Commit(generateShadowAtlas(CollectScene(ClearHistory(M("g0")), camera)))

SpecShadowAtlas == InitShadowAtlas /\ [][SetupShadowAtlas]_vars

-----------------------------------------------------------------------------
(* SpecCone: the functions of the lit fragment shaders on one fragment: the  *)
(* spot-light branch, the shadow test, the colour without lights and the     *)
(* light term of the multipass program.  Values are exact: a quotient is     *)
(* kept as numerator and denominator, cone = (cos of the inner angle, cos of *)
(* the outer angle); projected coordinates are in halves, uv and depths in   *)
(* quarters                                                                  *)

\* testShadow: ndc = proj_pos.xy / proj_pos.w and
\* depth = (proj_pos.z - bias) / proj_pos.w in halves; shadow_uv = ndc * 0.5 + 0.5
\* and real_depth = depth * 0.5 + 0.5 in quarters; shadow_depth is the texel
testShadow(ndc, depth, shadow_depth) ==
    IF ndc.x + 2 < 0 \/ ndc.x + 2 > 4 \/ ndc.y + 2 < 0 \/ ndc.y + 2 > 4
    THEN 0
    ELSE IF depth + 2 < 0 \/ depth + 2 > 4
    THEN 1
    ELSE IF shadow_depth < depth + 2 THEN 0 ELSE 1

\* a cone branch without the falloff band
SpotConeHardEdge(att, cos_angle, cone) ==
    IF cos_angle < cone.y THEN [num |-> 0, den |-> 1] ELSE [num |-> att, den |-> 1]

\* if (cos_angle < cone.y) att = 0.0;
\* else if (cos_angle < cone.x)
\*     att *= 1.0 - (cos_angle - cone.x) / (cone.y - cone.x);
SpotConeAttenuation(att, cos_angle, cone) ==
    IF cos_angle < cone.y
    THEN [num |-> 0, den |-> 1]
    ELSE IF cos_angle < cone.x
    THEN [num |-> att * ((cone.y - cone.x) - (cos_angle - cone.x)),
          den |-> cone.y - cone.x]
    ELSE [num |-> att, den |-> 1]

InitCone ==
    /\ scene = LitScene
    /\ renderer = RendererInit
    /\ gl = GLDefault
    /\ fbo_count = 0
    /\ camera_current = NewCamera
    /\ shaders = AtlasPrograms
    /\ log = <<>>
    /\ calls = <<>>
    /\ ever_cast = {}
    /\ shadow_passed = {}
    /\ process = Constructor(AtLoadAtlas(TRUE))
    /\ render_calls_live = 0
    /\ \E family \in {"spot", "shadow", "colour", "light"} :
         \E c \in (IF family \in {"spot", "light"} THEN 0..CosSteps ELSE {0}),
            x \in (IF family = "spot" THEN 0..CosSteps ELSE {3}),
            y \in (IF family = "spot" THEN 0..CosSteps ELSE {1}),
            a \in (IF family \in {"spot", "light"} THEN 0..MaxAtt ELSE {1}),
            nx, ny \in (IF family = "shadow" THEN (0 - ClipSteps)..ClipSteps ELSE {0}),
            d \in (IF family \in {"shadow", "light"}
                      THEN (0 - ClipSteps)..ClipSteps ELSE {0}),
            sd \in (IF family = "shadow" THEN 0..4
                       ELSE IF family = "light" THEN {0, 4} ELSE {4}),
            amb, alb \in (IF family = "colour" THEN 1..2 ELSE {1}),
            met, occ, emi \in (IF family = "colour" THEN 0..1 ELSE {1}),
            type \in (IF family = "light" THEN {POINT, SPOT, DIRECTIONAL} ELSE {SPOT}),
            enabled \in (IF family = "light" THEN {0, 1} ELSE {0}),
            ndl \in (IF family = "light" THEN {-1, 0, 1} ELSE {1}) :
           fragment = [shaded |-> FALSE, cos_angle |-> c, cone |-> [x |-> x, y |-> y],
                       att_before |-> a, att |-> [num |-> a, den |-> 1],
                       tested |-> FALSE, ndc |-> [x |-> nx, y |-> ny], depth |-> d,
                       shadow_depth |-> sd, shadow_factor |-> 1,
                       coloured |-> FALSE, u_ambient_light |-> amb, albedo |-> alb,
                       metalic_r |-> met, occlusion_r |-> occ, emissive |-> emi,
                       color |-> 0,
                       lit |-> FALSE, light_type |-> type, shadow_enabled |-> enabled,
                       n_dot_l |-> ndl, u_light_color |-> 1, lit_shadow_factor |-> 1,
                       diffuse |-> [num |-> 0, den |-> 1]]

ShadeSpot ==
    /\ ~fragment.shaded
    /\ fragment' = [fragment EXCEPT
                       !.shaded = TRUE,
                       !.att = SpotConeAttenuation(fragment.att_before,
                                                   fragment.cos_angle, fragment.cone)]
    /\ UNCHANGED <<scene, renderer, gl, fbo_count, camera_current, shaders, log, calls,
                   ever_cast, shadow_passed, process, render_calls_live>>

\* if (u_shadow_params.x != 0.0) shadow_factor = testShadow(v_world_position);
ShadeShadow ==
    /\ ~fragment.tested
    /\ fragment' = [fragment EXCEPT
                       !.tested = TRUE,
                       !.shadow_factor = testShadow(fragment.ndc, fragment.depth,
                                                    fragment.shadow_depth)]
    /\ UNCHANGED <<scene, renderer, gl, fbo_count, camera_current, shaders, log, calls,
                   ever_cast, shadow_passed, process, render_calls_live>>

\* no_light.fs main, one colour channel: albedo, occlusion and metalic are the
\* texture samples, emissive is u_emissive_factor times its sample;
\* light += u_ambient_light * metalic.r; color = albedo * light + emissive
NoLightMain(f) == f.albedo * (f.u_ambient_light * f.metalic_r) + f.emissive

ShadeNoLight ==
    /\ ~fragment.coloured
    /\ fragment' = [fragment EXCEPT !.coloured = TRUE, !.color = NoLightMain(fragment)]
    /\ UNCHANGED <<scene, renderer, gl, fbo_count, camera_current, shaders, log, calls,
                   ever_cast, shadow_passed, process, render_calls_live>>

\* light_multi.fs main, the term the light adds to one colour channel:
\* a Directional light adds max(NdotL, 0) * u_light_color, a Point or Spot
\* light max(NdotL, 0) * u_light_color * att * shadow_factor
LightMultiDiffuse(light_type, n_dot_l, u_light_color, att, shadow_factor) ==
    IF light_type = DIRECTIONAL
    THEN [num |-> (IF n_dot_l > 0 THEN n_dot_l ELSE 0) * u_light_color, den |-> 1]
    ELSE IF light_type = POINT \/ light_type = SPOT
    THEN [num |-> (IF n_dot_l > 0 THEN n_dot_l ELSE 0) * u_light_color * att.num
                      * shadow_factor,
          den |-> att.den]
    ELSE [num |-> 0, den |-> 1]

\* float shadow_factor = 1.0;
\* if (u_shadow_params.x != 0.0) shadow_factor = testShadow(v_world_position);
LightMultiShadowFactor(f) ==
    IF f.shadow_enabled # 0 THEN testShadow(f.ndc, f.depth, f.shadow_depth) ELSE 1

\* att of the Point / Spot branch: the cone applies to a Spot light only
LightMultiAtt(f) ==
    IF f.light_type = SPOT
    THEN SpotConeAttenuation(f.att_before, f.cos_angle, f.cone)
    ELSE [num |-> f.att_before, den |-> 1]

ShadeLightMulti ==
    /\ ~fragment.lit
    /\ fragment' = [fragment EXCEPT
                       !.lit = TRUE,
                       !.lit_shadow_factor = LightMultiShadowFactor(fragment),
                       !.diffuse = LightMultiDiffuse(
                           fragment.light_type, fragment.n_dot_l, fragment.u_light_color,
                           LightMultiAtt(fragment), LightMultiShadowFactor(fragment))]
    /\ UNCHANGED <<scene, renderer, gl, fbo_count, camera_current, shaders, log, calls,
                   ever_cast, shadow_passed, process, render_calls_live>>

SpecCone ==
    InitCone /\ [][ShadeSpot \/ ShadeShadow \/ ShadeNoLight \/ ShadeLightMulti]_vars

-----------------------------------------------------------------------------
(* Properties of a frame, read off the command log and the path invocations *)

Range(f) == {f[i] : i \in DOMAIN f}

\* a draw call into the default framebuffer: the main colour pass (and the
\* shadowmap viewer after it)
MainDraw(e) == e.op = "draw" /\ e.fbo = 0
ShadowDraw(e) == e.op = "draw" /\ e.fbo # 0

\* the lights of the frame that cast shadows
CastingLights == {idx \in Range(renderer.lights) : scene.entities[idx].cast_shadows}

ShadowRecordedBefore(i, idx) ==
    \E j \in 1..(i - 1) : log[j].op = "shadow_viewproj" /\ log[j].light = idx

\* C1: in every frame each visible light that casts shadows has had its shadow
\* pass completed and its shadow_viewproj recorded before the first draw call
\* of the main colour pass, and nothing of a shadow pass follows a main draw
C1_ShadowsBeforeMainPass ==
    \A i \in 1..Len(log) :
        MainDraw(log[i]) =>
            /\ \A idx \in CastingLights :
                   /\ ShadowRecordedBefore(i, idx)
                   /\ scene.entities[idx].shadowmap # 0
            /\ \A k \in (i + 1)..Len(log) :
                   log[k].op \in {"draw", "clear"} /\ log[k].fbo = 0

\* a frame with a casting light whose shadow pass drew a mesh, and a main pass
C1_Witness ==
    /\ CastingLights # {}
    /\ \E i \in 1..Len(log) : ShadowDraw(log[i])
    /\ \E i \in 1..Len(log) : MainDraw(log[i]) /\ log[i].path = "light"

\* C2: every render path leaves blend, face culling, depth test, depth
\* function and polygon mode as it found them, on every exit
C2_PathsRestoreState ==
    \A i \in 1..Len(calls) : SharedState(calls[i].entry) = SharedState(calls[i].exit)

-----------------------------------------------------------------------------
(* Properties of the lit path, read off the invocation records *)

\* the invocation of the lit path in the main colour pass
IsLitCall(c) == c.path = "light" /\ c.fbo = 0 /\ c.ret = "end"
HasLitCall(cs) == \E i \in 1..Len(cs) : IsLitCall(cs[i])
LitCallIndex(cs) == CHOOSE i \in 1..Len(cs) : IsLitCall(cs[i])
LitCall(cs) == cs[LitCallIndex(cs)]

\* the draw calls issued by invocation i, in order
DrawsOfCall(lg, i) == SelectSeq(lg, LAMBDA e : e.op = "draw" /\ e.call = i)

\* the lights whose contribution a draw call of a lit program adds
ContributingLights(e) ==
    IF e.program = "light_multipass" THEN {e.u.u_light_position[1].light}
    ELSE IF e.program = "light_singlepass"
    THEN {e.u.u_light_position[1][k].light : k \in DOMAIN e.u.u_light_position[1]}
    ELSE {}

\* what the draws of the lit invocation add up: how often the ambient and the
\* emissive term, and how often each light entity
Accumulated(lg, cs, sc) ==
    [ambient |->
        Cardinality({k \in DOMAIN DrawsOfCall(lg, LitCallIndex(cs)) :
            DrawsOfCall(lg, LitCallIndex(cs))[k].u.u_ambient_light = <<"scene">>}),
     emissive |->
        Cardinality({k \in DOMAIN DrawsOfCall(lg, LitCallIndex(cs)) :
            DrawsOfCall(lg, LitCallIndex(cs))[k].u.u_emissive_factor = <<"material">>}),
     lights |->
        [idx \in DOMAIN sc.entities |->
            Cardinality({k \in DOMAIN DrawsOfCall(lg, LitCallIndex(cs)) :
                idx \in ContributingLights(DrawsOfCall(lg, LitCallIndex(cs))[k])})]]

NoShadowmaps(sc) ==
    \A idx \in DOMAIN sc.entities :
        sc.entities[idx].type = "LIGHT" => sc.entities[idx].shadowmap = 0

\* a frame step that changes the pass mode and nothing else, shadows off
PassModeStep ==
    /\ renderer'.is_multipass # renderer.is_multipass
    /\ scene' = scene
    /\ renderer'.lights = renderer.lights
    /\ ~renderer.show_shadows /\ ~renderer'.show_shadows
    /\ NoShadowmaps(scene)
    /\ HasLitCall(calls) /\ HasLitCall(calls')

\* C3: for the same mesh, material and light list, shadows off, multipass and
\* singlepass add up the same: ambient and emissive once, and the same lights
\* once each
C3_PassModesAgree ==
    [][PassModeStep =>
          /\ Accumulated(log', calls', scene') = Accumulated(log, calls, scene)
          /\ Accumulated(log', calls', scene').ambient = 1
          /\ Accumulated(log', calls', scene').emissive = 1]_vars

IsSinglepassCall(c) == IsLitCall(c) /\ ~c.args.is_multipass
IsMultipassCall(c) == IsLitCall(c) /\ c.args.is_multipass

\* C4: in singlepass mode one invocation of the lit path with a valid mesh,
\* material and shader issues exactly one draw call, for 0, 1..5 and more
\* than 5 lights
C4_SinglepassOneDraw ==
    \A i \in 1..Len(calls) :
        IsSinglepassCall(calls[i]) =>
            /\ calls[i].draws = 1
            /\ Len(DrawsOfCall(log, i)) = 1

C4_Witness ==
    \E i \in 1..Len(calls) :
        /\ IsSinglepassCall(calls[i])
        /\ Len(calls[i].args.lights) > MAX_LIGHTS
        /\ calls[i].draws = 1

LightArrayNames ==
    {"u_light_position", "u_light_color", "u_light_front", "u_light_info",
     "u_light_cone", "u_shadow_params", "u_shadow_viewproj"}

\* slot j of the uploaded arrays holds the j-th light of the frame
SlotHoldsLight(c, sc, j) ==
    /\ c.u.u_light_position[1][j] =
           [light |-> c.args.lights[j], pos |-> sc.entities[c.args.lights[j]].pos]
    /\ c.u.u_light_color[1][j] = LightColor(sc.entities[c.args.lights[j]])
    /\ c.u.u_light_front[1][j] = LightFront(sc.entities[c.args.lights[j]])
    /\ c.u.u_light_info[1][j] = LightInfo(sc.entities[c.args.lights[j]])
    /\ sc.entities[c.args.lights[j]].light_type = SPOT =>
           c.u.u_light_cone[1][j] = LightCone(sc.entities[c.args.lights[j]])

\* the uploads of a singlepass invocation with k = min(n, 5)
SinglepassUploads(c, sc, k) ==
    /\ c.u.u_num_lights = <<k>>
    /\ \A j \in 1..Len(c.uploads) :
           c.uploads[j].name \in LightArrayNames => c.uploads[j].count = k
    /\ \A name \in LightArrayNames \ {"u_shadow_viewproj"} : Len(c.u[name][1]) = k
    /\ ~c.oob
    /\ \A j \in 1..k : SlotHoldsLight(c, sc, j)

SinglepassCapped(cs, sc) ==
    \A i \in 1..Len(cs) :
        (IsSinglepassCall(cs[i]) /\ Len(cs[i].args.lights) > 0) =>
            SinglepassUploads(cs[i], sc,
                IF Len(cs[i].args.lights) < 5 THEN Len(cs[i].args.lights) ELSE 5)

\* a frame step that appends a 6th light to a list of 5, singlepass before and
\* after, the local arrays created over the same stack contents
SixthLightStep ==
    /\ Len(renderer.lights) = 5 /\ Len(renderer'.lights) = 6
    /\ SubSeq(renderer'.lights, 1, 5) = renderer.lights
    /\ SubSeq(scene'.entities, 1, Len(scene.entities)) = scene.entities
    /\ ~renderer.is_multipass /\ ~renderer'.is_multipass
    /\ renderer'.show_shadows = renderer.show_shadows
    /\ HasLitCall(calls) /\ HasLitCall(calls')
    /\ LitCall(calls').stack = LitCall(calls).stack

\* C5: in singlepass mode with n lights, u_num_lights and the element count of
\* every light array upload is min(n, 5), the arrays hold the first min(n, 5)
\* lights in order, no slot past the 5th is written or read, and appending a
\* 6th light to a list of 5 leaves every uploaded value unchanged.  (The cone
\* slot of a light that is not a Spot light is never stored to and uploads
\* what the local array held; the two frames are compared over the same
\* array contents.)
C5_SinglepassCap ==
    [][/\ SinglepassCapped(calls', scene')
       /\ SixthLightStep =>
              /\ LitCall(calls').u = LitCall(calls).u
              /\ LitCall(calls').uploads = LitCall(calls).uploads]_vars

C5_Witness ==
    \E i \in 1..Len(calls) :
        /\ IsSinglepassCall(calls[i])
        /\ Len(calls[i].args.lights) = 6
        /\ calls[i].u.u_num_lights = <<5>>
        /\ scene.entities[calls[i].args.lights[6]] # scene.entities[calls[i].args.lights[5]]

\* the lights of the invocation whose sphere of radius 2 * max_distance
\* overlaps the bounding box of the mesh
ReachingLights(c, sc) ==
    SelectSeq(c.args.lights,
              LAMBDA idx : Abs(c.args.pos - sc.entities[idx].pos)
                               <= c.args.radius + 2 * sc.entities[idx].max_distance)

\* C6: in multipass mode with a non-empty light list the draw calls of one
\* mesh are one per light that passes the overlap test, in order; a light that
\* fails the test gets no uniform and no draw call
C6_MultipassDrawPerLight ==
    \A i \in 1..Len(calls) :
        (IsMultipassCall(calls[i]) /\ Len(calls[i].args.lights) > 0) =>
            /\ calls[i].draws = Len(ReachingLights(calls[i], scene))
            /\ Len(DrawsOfCall(log, i)) = Len(ReachingLights(calls[i], scene))
            /\ \A k \in 1..Len(DrawsOfCall(log, i)) :
                   DrawsOfCall(log, i)[k].u.u_light_position[1].light
                       = ReachingLights(calls[i], scene)[k]
            /\ Cardinality({j \in 1..Len(calls[i].uploads) :
                               calls[i].uploads[j].name = "u_light_position"})
                   = Len(ReachingLights(calls[i], scene))

\* a multipass invocation with a light that passes and a light that fails
C6_Witness ==
    \E i \in 1..Len(calls) :
        /\ IsMultipassCall(calls[i])
        /\ Len(ReachingLights(calls[i], scene)) > 0
        /\ Len(ReachingLights(calls[i], scene)) < Len(calls[i].args.lights)

\* C7: in multipass mode the ambient and emissive uniforms are the scene
\* ambient and the material emissive for the first draw call issued for a mesh
\* and zero for every later one
C7_AmbientEmissiveOnce ==
    \A i \in 1..Len(calls) :
        IsMultipassCall(calls[i]) =>
            \A k \in 1..Len(DrawsOfCall(log, i)) :
                /\ DrawsOfCall(log, i)[k].u.u_ambient_light =
                       IF k = 1 THEN <<"scene">> ELSE <<"zero">>
                /\ DrawsOfCall(log, i)[k].u.u_emissive_factor =
                       IF k = 1 THEN <<"material">> ELSE <<"zero">>

C7_Witness ==
    \E i \in 1..Len(calls) :
        /\ IsMultipassCall(calls[i])
        /\ Len(DrawsOfCall(log, i)) >= 3
        /\ DrawsOfCall(log, i)[3].u.u_ambient_light = <<"zero">>

\* C8: with an empty frame light list the lit path selects the no_light
\* program and issues exactly one draw call with the scene ambient and the
\* material emissive, with is_multipass true and with is_multipass false
C8_NoLights ==
    \A i \in 1..Len(calls) :
        (IsLitCall(calls[i]) /\ Len(calls[i].args.lights) = 0) =>
            /\ calls[i].program = "no_light"
            /\ calls[i].draws = 1
            /\ Len(DrawsOfCall(log, i)) = 1
            /\ DrawsOfCall(log, i)[1].program = "no_light"
            /\ DrawsOfCall(log, i)[1].u.u_ambient_light = <<"scene">>
            /\ DrawsOfCall(log, i)[1].u.u_emissive_factor = <<"material">>

\* a singlepass frame without lights, reached from a multipass one
C8_Witness ==
    \E i \in 1..Len(calls) :
        /\ IsSinglepassCall(calls[i])
        /\ Len(calls[i].args.lights) = 0
        /\ calls[i].program = "no_light"

-----------------------------------------------------------------------------
(* Properties of the shadow generator *)

SceneLights == {idx \in DOMAIN scene.entities : scene.entities[idx].type = "LIGHT"}

\* C9: a light whose cast_shadows flag was false in every frame has a null
\* shadowmap and a null framebuffer after any number of frames
C9_NonCastingHasNoShadowmap ==
    \A idx \in SceneLights \ ever_cast :
        scene.entities[idx].shadowmap = 0 /\ scene.entities[idx].shadowmap_fbo = 0

\* a visible light that never cast, next to a light that got its shadowmap,
\* with the shadowmap viewer on
C9_Witness ==
    /\ renderer.show_shadowmaps
    /\ \E idx \in SceneLights \ ever_cast : scene.entities[idx].visible
    /\ \E idx \in SceneLights : scene.entities[idx].shadowmap # 0

\* the projection a light's shape asks for
OwnShape(light) ==
    IF light.light_type = SPOT
    THEN [DefaultProjection EXCEPT !.kind = "perspective", !.left = 0, !.right = 0,
              !.top = 0, !.bottom = 0, !.fov = 2 * light.cone_outer, !.aspect = 1,
              !.near = 10 * light.near_distance, !.far = light.max_distance]
    ELSE [DefaultProjection EXCEPT !.left = 0 - (light.area \div 2),
              !.right = light.area \div 2, !.top = light.area \div 2,
              !.bottom = 0 - (light.area \div 2), !.near = 1,
              !.far = light.max_distance]

\* the view a light's pose asks for
OwnPose(light, viewproj) ==
    /\ viewproj # IdentityMatrix
    /\ viewproj.eye = light.pos
    /\ viewproj.front = light.dir
    /\ viewproj.up = IF light.dir = "-Y" THEN "-Y" ELSE "+Y"

\* the projection the shared shadow camera holds after the first i lights of
\* the frame: that of the last casting Spot or Directional light among them
RECURSIVE ProjectionAfter(_)
ProjectionAfter(i) ==
    IF i = 0 THEN DefaultProjection
    ELSE IF scene.entities[renderer.lights[i]].cast_shadows
            /\ scene.entities[renderer.lights[i]].light_type # POINT
    THEN OwnShape(scene.entities[renderer.lights[i]])
    ELSE ProjectionAfter(i - 1)

\* C10 as stated: every light of the scene with cast_shadows set, of any type
\* and any visibility, has after the shadow generator a shadowmap and a
\* shadow_viewproj built from its own pose and shape
C10_EveryCastingLight ==
    \A idx \in SceneLights :
        scene.entities[idx].cast_shadows =>
            /\ scene.entities[idx].shadowmap # 0
            /\ OwnPose(scene.entities[idx], scene.entities[idx].shadow_viewproj)
            /\ scene.entities[idx].light_type # POINT =>
                   scene.entities[idx].shadow_viewproj.proj = OwnShape(scene.entities[idx])
            /\ scene.entities[idx].light_type = POINT =>
                   scene.entities[idx].shadow_viewproj.proj = DefaultProjection

\* C10 amended: every visible light with cast_shadows set has after the
\* shadow generator a shadowmap and a shadow_viewproj whose view is built from
\* its own pose; the projection is built from its own shape for a Spot or
\* Directional light, and for a Point light is the one the shared camera
\* held before (the previous casting light's, or the default)
C10_VisibleCastingLight ==
    \A i \in 1..Len(renderer.lights) :
        scene.entities[renderer.lights[i]].cast_shadows =>
            /\ scene.entities[renderer.lights[i]].shadowmap # 0
            /\ OwnPose(scene.entities[renderer.lights[i]],
                       scene.entities[renderer.lights[i]].shadow_viewproj)
            /\ scene.entities[renderer.lights[i]].shadow_viewproj.proj = ProjectionAfter(i)

\* a casting Point light behind a casting Spot or Directional light, and an
\* invisible casting light without a shadowmap
C10_Witness ==
    /\ \E i \in 2..Len(renderer.lights) :
           /\ scene.entities[renderer.lights[i]].cast_shadows
           /\ scene.entities[renderer.lights[i]].light_type = POINT
           /\ scene.entities[renderer.lights[i]].shadow_viewproj.proj # DefaultProjection
    /\ \E i \in 1..Len(renderer.lights) :
           /\ scene.entities[renderer.lights[i]].cast_shadows
           /\ scene.entities[renderer.lights[i]].light_type = DIRECTIONAL

\* C11: between frames a light's shadowmap is non-null if and only if at
\* least one shadow pass (bind, render, record shadow_viewproj) has been
\* executed for the light since it was created
C11_ShadowmapIffPassed ==
    \A idx \in SceneLights : (scene.entities[idx].shadowmap # 0) <=> (idx \in shadow_passed)

\* a light with a shadowmap next to a casting light that had no pass yet
C11_Witness ==
    /\ \E idx \in SceneLights : idx \in shadow_passed /\ scene.entities[idx].shadowmap # 0
    /\ \E idx \in SceneLights :
           /\ scene.entities[idx].cast_shadows
           /\ idx \notin shadow_passed
           /\ scene.entities[idx].shadowmap = 0

\* the lights that hold a depth render target
LightsWithTarget == {idx \in SceneLights : scene.entities[idx].shadowmap_fbo # 0}

\* C12: a light's depth render target is allocated at most once over any
\* number of frames, later shadow passes reuse it, and the number of
\* framebuffers allocated never exceeds the number of lights that ever cast
C12_TargetAllocatedOnce ==
    /\ fbo_count = Cardinality(LightsWithTarget)
    /\ fbo_count <= Cardinality(ever_cast)
    /\ LightsWithTarget \subseteq ever_cast

\* a frame with two shadow passes over targets allocated in earlier frames
C12_Witness ==
    /\ fbo_count = 2
    /\ Cardinality({i \in 1..Len(log) : log[i].op = "bind"}) = 2
    /\ Cardinality({idx \in SceneLights : ~scene.entities[idx].cast_shadows}) = 0
    /\ renderer.render_mode = TEXTURED

\* what the shadow generator reads of an entity: everything but the shadow
\* fields it writes
GeneratorInput(ent) ==
    IF ent.type = "LIGHT"
    THEN [ent EXCEPT !.shadowmap_fbo = 0, !.shadowmap = 0, !.shadow_viewproj = IdentityMatrix]
    ELSE ent

\* a frame that calls the shadow generator on the scene, light list and
\* camera of the frame before
SameGeneratorCall ==
    /\ Len(scene'.entities) = Len(scene.entities)
    /\ \A idx \in DOMAIN scene.entities :
           GeneratorInput(scene'.entities[idx]) = GeneratorInput(scene.entities[idx])
    /\ renderer'.lights = renderer.lights
    /\ calls # <<>>

\* C13: calling the shadow generator twice in a row with an unchanged scene,
\* light list and camera records the same shadow_viewproj for every light both
\* times: the second call changes no shadow_viewproj and allocates nothing
C13_GeneratorIdempotent ==
    [][SameGeneratorCall =>
          /\ \A idx \in DOMAIN scene.entities :
                 scene.entities[idx].type = "LIGHT" =>
                     /\ scene'.entities[idx].shadow_viewproj
                            = scene.entities[idx].shadow_viewproj
                     /\ scene'.entities[idx].shadowmap = scene.entities[idx].shadowmap
                     /\ scene'.entities[idx].shadowmap_fbo
                            = scene.entities[idx].shadowmap_fbo
          /\ fbo_count' = fbo_count
          /\ shadow_passed' = shadow_passed]_vars

\* a frame that ran the shadow pass of a Spot light and of a Point light
\* behind it
C13_Witness ==
    /\ Len(renderer.lights) = 2
    /\ scene.entities[renderer.lights[1]].light_type = SPOT
    /\ scene.entities[renderer.lights[2]].light_type = POINT
    /\ \A i \in 1..2 : renderer.lights[i] \in shadow_passed
    /\ Cardinality({i \in 1..Len(log) : log[i].op = "shadow_viewproj"}) = 2

-----------------------------------------------------------------------------
(* Properties of the error paths *)

\* the program a material path looks up
ProgramLookedUp(c) ==
    CASE c.path = "flat" -> "flat"
      [] c.path = "texture" -> "texture"
      [] c.path = "skybox" -> "skybox"
      [] c.path = "light" /\ Len(c.args.lights) = 0 -> "no_light"
      [] c.path = "light" /\ c.args.is_multipass -> "light_multipass"
      [] c.path = "light" -> "light_singlepass"
      [] OTHER -> "linear_depth"

MaterialPaths == {"flat", "texture", "light", "skybox"}

\* the invocation got as far as the shader lookup
ReachedLookup(c) == c.path \in MaterialPaths /\ c.ret \notin {"nothing", "blend_skipped"}

\* the nodes renderFrame visits in the default framebuffer: both nodes of the
\* prefab, which are visible and inside the frustum of the camera
NodesOfMainPass == {"a", "b"}

\* C14: when the shader lookup of a material path returns null the path
\* returns without enabling a shader, uploading a uniform or issuing a draw
\* call, and the rest of the frame is still processed
C14_MissingShaderSkipsDraw ==
    /\ \A i \in 1..Len(calls) :
           (ReachedLookup(calls[i]) /\ ProgramLookedUp(calls[i]) \notin shaders) =>
               /\ calls[i].ret = "no_shader"
               /\ calls[i].program = "none"
               /\ calls[i].uploads = <<>>
               /\ calls[i].draws = 0
               /\ DrawsOfCall(log, i) = <<>>
    /\ calls # <<>> =>
           \A n \in NodesOfMainPass :
               \E i \in 1..Len(calls) : calls[i].args.node = n /\ calls[i].fbo = 0

\* a frame in which the lit path of the first node found no shader and the
\* second node was still visited, after a skybox that was drawn
C14_Witness ==
    \E i, j, k \in 1..Len(calls) :
        /\ i < j /\ j < k
        /\ calls[i].path = "skybox" /\ calls[i].ret = "end"
        /\ calls[j].path = "light" /\ calls[j].ret = "no_shader"
        /\ calls[j].args.node = "a"
        /\ calls[k].args.node = "b" /\ calls[k].fbo = 0

\* the sampler uniform of each material texture channel
ChannelSampler ==
    [ALBEDO |-> "u_albedo_texture", EMISSIVE |-> "u_emissive_texture",
     METALLIC_ROUGHNESS |-> "u_metallic_texture", NORMALMAP |-> "u_normal_texture",
     OCCLUSION |-> "u_occlusion_texture"]

\* the samplers a lit program declares: the singlepass program has no
\* occlusion sampler
DeclaredChannels(program) ==
    IF program = "light_singlepass" THEN DOMAIN ChannelSampler \ {"OCCLUSION"}
    ELSE DOMAIN ChannelSampler

\* the sampler was set in this invocation, to the white texture
BoundToWhite(c, channel) ==
    /\ c.u[ChannelSampler[channel]] # Stale
    /\ c.u[ChannelSampler[channel]][1].tex = "white"

\* C15: in the lit path every sampler of a texture channel the material
\* lacks is bound to the white texture before the draw; none keeps the
\* binding it had before the invocation
C15_AbsentChannelsBoundToWhite ==
    \A i \in 1..Len(calls) :
        (calls[i].path = "light" /\ calls[i].ret = "end") =>
            \A ch \in DeclaredChannels(calls[i].program) :
                ch \notin calls[i].args.textures => BoundToWhite(calls[i], ch)

\* C16: when the atlas fails to load the constructor ends the process at
\* once: neither checkGLErrors nor createSphere runs, and the exited process
\* takes no further step, so no frame is rendered
C16_AtlasFailureIsFatal ==
    /\ [](  (~process.atlas_loads /\ process.pc # "LoadAtlas") =>
               /\ process.pc = "exited"
               /\ process.steps = <<"LoadAtlas">>
               /\ calls = <<>> /\ log = <<>>)
    /\ [][process.pc # "exited"]_vars

\* the process after a failed atlas load
C16_Witness ==
    /\ ~process.atlas_loads
    /\ process.pc = "exited"
    /\ "LoadAtlas" \in Range(process.steps)

\* the look direction is along the world Y axis
ParallelToWorldY(front) == front \in {"+Y", "-Y"}

\* C17: the shadow camera of every light is built with up = +Y, or -Y when
\* the light looks along world Y, and its up vector is never parallel or
\* anti-parallel to its look direction
C17_ShadowCameraUpNotDegenerate ==
    \A idx \in shadow_passed :
        /\ scene.entities[idx].shadow_viewproj.up =
               (IF ParallelToWorldY(scene.entities[idx].shadow_viewproj.front)
                THEN "-Y" ELSE "+Y")
        /\ scene.entities[idx].shadow_viewproj.up \notin
               {scene.entities[idx].shadow_viewproj.front,
                Neg(scene.entities[idx].shadow_viewproj.front)}

\* C18: the shadow pass of a SPOT light projects in perspective with a field
\* of view of twice the outer cone angle, aspect 1 and the light's near and
\* max distance; that of a DIRECTIONAL light projects orthographically on a
\* box of half-extent area/2 on both axes, near 0.1 (1 tenth), far max_distance
C18_ProjectionByLightType ==
    \A idx \in shadow_passed :
        /\ scene.entities[idx].light_type = SPOT =>
              /\ scene.entities[idx].shadow_viewproj.proj.kind = "perspective"
              /\ scene.entities[idx].shadow_viewproj.proj.fov
                     = 2 * scene.entities[idx].cone_outer
              /\ scene.entities[idx].shadow_viewproj.proj.aspect = 1
              /\ scene.entities[idx].shadow_viewproj.proj.near
                     = 10 * scene.entities[idx].near_distance
              /\ scene.entities[idx].shadow_viewproj.proj.far
                     = scene.entities[idx].max_distance
        /\ scene.entities[idx].light_type = DIRECTIONAL =>
              /\ scene.entities[idx].shadow_viewproj.proj.kind = "orthographic"
              /\ 2 * scene.entities[idx].shadow_viewproj.proj.right
                     = scene.entities[idx].area
              /\ 2 * scene.entities[idx].shadow_viewproj.proj.top
                     = scene.entities[idx].area
              /\ scene.entities[idx].shadow_viewproj.proj.left
                     = 0 - scene.entities[idx].shadow_viewproj.proj.right
              /\ scene.entities[idx].shadow_viewproj.proj.bottom
                     = 0 - scene.entities[idx].shadow_viewproj.proj.top
              /\ scene.entities[idx].shadow_viewproj.proj.near = 1
              /\ scene.entities[idx].shadow_viewproj.proj.far
                     = scene.entities[idx].max_distance

\* a frame after which a SPOT and a DIRECTIONAL light both hold the matrix of
\* their own shadow pass
C18_Witness ==
    \E i, j \in shadow_passed :
        /\ scene.entities[i].light_type = SPOT
        /\ scene.entities[j].light_type = DIRECTIONAL
        /\ scene.entities[i].shadow_viewproj.proj.kind = "perspective"
        /\ scene.entities[j].shadow_viewproj.proj.kind = "orthographic"

\* the lights whose contribution some draw call of invocation i adds
LightsAddedBy(lg, i) ==
    UNION {ContributingLights(DrawsOfCall(lg, i)[k]) : k \in DOMAIN DrawsOfCall(lg, i)}

\* the j-th light of the invocation is one the pass mode hands to the shader
\* at all: singlepass takes the first MAX_LIGHTS only
WithinPassCapacity(c, j) == c.args.is_multipass \/ j <= MAX_LIGHTS

\* C19: a Directional light lights a mesh whatever its max_distance and
\* whatever the distance between its position and the mesh: in multipass and
\* in singlepass every Directional light of the frame contributes to every
\* mesh the lit path draws
C19_DirectionalIgnoresDistance ==
    \A i \in 1..Len(calls) :
        IsLitCall(calls[i]) =>
            \A j \in 1..Len(calls[i].args.lights) :
                (/\ scene.entities[calls[i].args.lights[j]].light_type = DIRECTIONAL
                 /\ WithinPassCapacity(calls[i], j))
                    => calls[i].args.lights[j] \in LightsAddedBy(log, i)

-----------------------------------------------------------------------------
(* Properties of the fragment shaders *)

\* the fragment has been through the cone branch of a spot light whose outer
\* cosine is below its inner cosine
ShadedInCone ==
    /\ fragment # <<>>
    /\ fragment.shaded
    /\ fragment.cone.y < fragment.cone.x

\* C20: the cone branch leaves attenuation 0 when the cos-angle is at or below
\* the outer cosine, leaves the attenuation as it was when the cos-angle is at
\* or above the inner cosine, and between the two multiplies it by
\* (cos_angle - outer) / (inner - outer); quotients are compared by cross
\* multiplication
C20_SpotConeFactor ==
    ShadedInCone =>
        /\ fragment.att.den # 0
        /\ fragment.cos_angle <= fragment.cone.y => fragment.att.num = 0
        /\ fragment.cos_angle >= fragment.cone.x =>
               fragment.att.num = fragment.att_before * fragment.att.den
        /\ (fragment.cone.y < fragment.cos_angle /\ fragment.cos_angle < fragment.cone.x) =>
               fragment.att.num * (fragment.cone.x - fragment.cone.y) =
                   fragment.att_before * (fragment.cos_angle - fragment.cone.y)
                       * fragment.att.den

\* a fragment strictly inside the falloff band whose attenuation was cut to
\* a proper fraction of what it was
C20_Witness ==
    /\ ShadedInCone
    /\ fragment.cone.y < fragment.cos_angle /\ fragment.cos_angle < fragment.cone.x
    /\ fragment.att_before > 0
    /\ fragment.att.num # 0
    /\ fragment.att.num # fragment.att_before * fragment.att.den

\* the projected sample of the fragment lies outside the shadow map on an
\* axis, or outside the depth range of the light
OutsideShadowXY ==
    \/ fragment.ndc.x + 2 < 0 \/ fragment.ndc.x + 2 > 4
    \/ fragment.ndc.y + 2 < 0 \/ fragment.ndc.y + 2 > 4
OutsideShadowDepth == fragment.depth + 2 < 0 \/ fragment.depth + 2 > 4

\* C21: the shadow test returns 1 (lit) when the sample falls outside the XY
\* bounds of the light frustum or outside its depth range, and otherwise 0 or
\* 1 by comparing the stored depth with the depth of the fragment
C21_ShadowTestOutsideIsLit ==
    (fragment # <<>> /\ fragment.tested) =>
        IF OutsideShadowXY \/ OutsideShadowDepth
        THEN fragment.shadow_factor = 1
        ELSE fragment.shadow_factor =
                 (IF fragment.shadow_depth < fragment.depth + 2 THEN 0 ELSE 1)

\* C22: the ambient term of the lit programs is the ambient light times the
\* sample of the occlusion texture: without lights the colour of a fragment is
\* albedo x ambient x occlusion + emissive
C22_AmbientTimesOcclusion ==
    (fragment # <<>> /\ fragment.coloured) =>
        fragment.color =
            fragment.albedo * fragment.u_ambient_light * fragment.occlusion_r
                + fragment.emissive

-----------------------------------------------------------------------------
(* Properties of the shadow uniforms *)

\* the draw calls of the multipass program in the main colour pass
IsMultipassLightDraw(e) == e.op = "draw" /\ e.fbo = 0 /\ e.program = "light_multipass"

\* C23: in multipass mode the pass of a light uploads shadow-enabled = 1 only
\* if the light casts shadows in this frame; once cast_shadows is switched off
\* the flag is 0 and no shadow map of an earlier frame is bound
C23_ShadowFlagOnlyWhenCasting ==
    \A k \in 1..Len(log) :
        IsMultipassLightDraw(log[k]) =>
            \/ scene.entities[log[k].u.u_light_position[1].light].cast_shadows
            \/ /\ log[k].u.u_shadow_params[1].enabled = 0
               /\ log[k].u.u_shadowmap = Stale

\* the shadow-enabled flag a light with or without a shadow map gets when the
\* gate is open
FlagOf(light, gate) == IF light.shadowmap # 0 /\ gate THEN 1 ELSE 0

\* the lights a singlepass invocation packs
PackedSlots(c) ==
    1..(IF Len(c.args.lights) < MAX_LIGHTS THEN Len(c.args.lights) ELSE MAX_LIGHTS)

SinglepassShadowUploads(c) ==
    /\ \A j \in PackedSlots(c) :
           c.u.u_shadow_params[1][j].enabled =
               FlagOf(scene.entities[c.args.lights[j]], c.args.show_shadows)
    /\ ~c.args.show_shadows =>
           /\ c.u.u_shadow_viewproj = Stale
           /\ \A s \in 0..(MAX_LIGHTS - 1) : c.u[ShadowmapSlot(s)] = Stale
           /\ \A j \in PackedSlots(c) : c.u.u_shadow_params[1][j].enabled = 0

\* C24: in singlepass mode the shadow-enabled flag of packed light i is 1
\* exactly when the light has a shadow map and show_shadows is on; with
\* show_shadows off every flag is 0 and neither shadow matrices nor shadow
\* maps are uploaded; what multipass uploads does not look at the toggle
C24_SinglepassShadowGate ==
    /\ \A i \in 1..Len(calls) :
           (IsSinglepassCall(calls[i]) /\ Len(calls[i].args.lights) > 0) =>
               SinglepassShadowUploads(calls[i])
    /\ \A k \in 1..Len(log) :
           IsMultipassLightDraw(log[k]) =>
               log[k].u.u_shadow_params[1].enabled =
                   FlagOf(scene.entities[log[k].u.u_light_position[1].light], TRUE)

\* a singlepass invocation with the toggle on, a first light with a shadow
\* map and flag 1 and a second light without and flag 0
C24_Witness ==
    \E i \in 1..Len(calls) :
        /\ IsSinglepassCall(calls[i])
        /\ calls[i].args.show_shadows
        /\ Len(calls[i].args.lights) >= 2
        /\ calls[i].u.u_shadow_params[1][1].enabled = 1
        /\ calls[i].u.u_shadow_params[1][2].enabled = 0
        /\ calls[i].u[ShadowmapSlot(0)] # Stale

-----------------------------------------------------------------------------
(* Properties of setupScene and renderFrame *)

\* a frame has been rendered
FrameRendered == log # <<>>

VisibleLights ==
    {idx \in DOMAIN scene.entities :
        scene.entities[idx].type = "LIGHT" /\ scene.entities[idx].visible}

\* C25: after setupScene the light list of the frame holds exactly the light
\* entities of the scene whose visible flag is set, each once, in entity
\* order; a light that is invisible now is not in it
C25_LightListIsVisibleLights ==
    FrameRendered =>
        /\ Range(renderer.lights) = VisibleLights
        /\ Len(renderer.lights) = Cardinality(VisibleLights)
        /\ \A i, j \in 1..Len(renderer.lights) :
               i < j => renderer.lights[i] < renderer.lights[j]

\* a frame with a visible light in the list and a light, listed in the frame
\* it was added in, that is invisible now
C25_Witness ==
    /\ FrameRendered
    /\ renderer.lights # <<>>
    /\ \E idx \in SceneLights : ~scene.entities[idx].visible

VisiblePrefabs ==
    {idx \in DOMAIN scene.entities :
        scene.entities[idx].type = "PREFAB" /\ scene.entities[idx].visible}

\* the root node of the i-th render call
RootNameAt(i) == scene.entities[renderer.render_calls[i].ent].root.name

\* within one pass the invocations for the i-th render call come before those
\* for the j-th
VisitedInOrder(i, j) ==
    \A p, q \in 1..Len(calls) :
        (/\ calls[p].args.node = RootNameAt(i)
         /\ calls[q].args.node = RootNameAt(j)
         /\ calls[p].fbo = calls[q].fbo) => p < q

\* C26: after setupScene the render calls are one per visible prefab, each
\* with its distance to the eye of the camera, ordered by non-increasing
\* distance, and renderFrame visits the prefabs in that order
C26_RenderCallsBackToFront ==
    FrameRendered =>
        /\ {renderer.render_calls[i].ent : i \in 1..Len(renderer.render_calls)}
               = VisiblePrefabs
        /\ Len(renderer.render_calls) = Cardinality(VisiblePrefabs)
        /\ \A i \in 1..Len(renderer.render_calls) :
               /\ renderer.render_calls[i].distance_to_camera =
                      Abs(camera_current.eye
                          - scene.entities[renderer.render_calls[i].ent].root.pos)
               /\ \E p \in 1..Len(calls) :
                      calls[p].fbo = 0 /\ calls[p].args.node = RootNameAt(i)
        /\ \A i, j \in 1..Len(renderer.render_calls) :
               i < j =>
                   /\ renderer.render_calls[i].distance_to_camera
                          >= renderer.render_calls[j].distance_to_camera
                   /\ VisitedInOrder(i, j)

\* a frame over three visible prefabs whose entity order is not their order
\* of distance, the farthest visited first, with a shadow pass
C26_Witness ==
    /\ FrameRendered
    /\ Len(renderer.render_calls) = 3
    /\ renderer.render_calls[2].ent > renderer.render_calls[3].ent
    /\ renderer.render_calls[1].distance_to_camera
           > renderer.render_calls[3].distance_to_camera
    /\ \E p \in 1..Len(calls) : calls[p].fbo # 0

SkyboxCalls == {p \in 1..Len(calls) : calls[p].path = "skybox"}
SkyboxDraws == {k \in 1..Len(log) : log[k].op = "draw" /\ log[k].path = "skybox"}

\* the clear of the main colour pass
MainClears == {k \in 1..Len(log) : log[k].op = "clear" /\ log[k].fbo = 0}

\* C27: renderFrame draws the skybox if and only if a cubemap is set and the
\* render mode is not FLAT, after the clear and before any mesh; no skybox is
\* drawn into a shadow map
C27_SkyboxWhenSetAndNotFlat ==
    FrameRendered =>
        /\ (SkyboxDraws # {}) <=>
               (renderer.skybox_cubemap # 0 /\ renderer.render_mode # FLAT)
        /\ Cardinality(SkyboxDraws) <= 1 /\ Cardinality(SkyboxCalls) <= 1
        /\ \A p \in SkyboxCalls : calls[p].fbo = 0
        /\ \A k \in SkyboxDraws :
               /\ log[k].fbo = 0
               /\ \E c \in MainClears : c < k
               /\ \A d \in 1..Len(log) :
                      (log[d].op = "draw" /\ log[d].fbo = 0 /\ log[d].path # "skybox")
                          => k < d

\* a frame with a shadow pass, then the skybox and a mesh in the main pass
C27_Witness ==
    /\ FrameRendered
    /\ SkyboxDraws # {}
    /\ \E k \in 1..Len(log) : log[k].op = "draw" /\ log[k].fbo # 0
    /\ \E d \in 1..Len(log) :
           log[d].op = "draw" /\ log[d].fbo = 0 /\ log[d].path # "skybox"

-----------------------------------------------------------------------------
(* Properties of the debug overlay *)

\* the quads of the overlay, in the order they are drawn (left to right)
DebugDraws == SelectSeq(log, LAMBDA e : e.op = "draw" /\ e.path = "debug")

\* Spot lights first, then Point lights, then Directional lights
TypeRank(light_type) ==
    IF light_type = SPOT THEN 1 ELSE IF light_type = POINT THEN 2 ELSE 3

\* the light whose shadow map a quad of the overlay shows
LightShownBy(e) == scene.entities[e.u.u_texture[1].tex]

\* C28: the overlay shows the shadow maps ordered by light type, Spot, then
\* Point, then Directional, whatever the order of the lights in the scene
C28_OverlayOrderedByType ==
    \A i, j \in 1..Len(DebugDraws) :
        i < j => TypeRank(LightShownBy(DebugDraws[i]).light_type)
                     <= TypeRank(LightShownBy(DebugDraws[j]).light_type)

-----------------------------------------------------------------------------
(* Properties of the shadow atlas *)

\* the cells given to the casting lights, in the order of their passes
AtlasCells == SelectSeq(log, LAMBDA e : e.op = "scissor")

\* two rectangles <<x, y, w, h>> share no pixel
Disjoint(a, b) ==
    \/ a[1] + a[3] <= b[1] \/ b[1] + b[3] <= a[1]
    \/ a[2] + a[4] <= b[2] \/ b[2] + b[4] <= a[2]

\* C29: all casting lights render into one framebuffer; the k-th casting
\* light (from 0) gets the cell of column k mod 2 and row k div 2; the cells
\* are of one size, those of distinct lights do not overlap, and every cell
\* lies inside the 1024 x 1024 target
C29_AtlasCellsShareOneTarget ==
    /\ \A a, b \in 1..Len(AtlasCells) : AtlasCells[a].fbo = AtlasCells[b].fbo
    /\ \A a \in 1..Len(AtlasCells) :
           /\ AtlasCells[a].rect[1] = ((a - 1) % 2) * AtlasCells[a].rect[3]
           /\ AtlasCells[a].rect[2] = ((a - 1) \div 2) * AtlasCells[a].rect[4]
           /\ AtlasCells[a].rect[3] = AtlasCells[1].rect[3]
           /\ AtlasCells[a].rect[4] = AtlasCells[1].rect[4]
           /\ AtlasCells[a].rect[1] + AtlasCells[a].rect[3] <= 1024
           /\ AtlasCells[a].rect[2] + AtlasCells[a].rect[4] <= 1024
    /\ \A a, b \in 1..Len(AtlasCells) :
           a # b => Disjoint(AtlasCells[a].rect, AtlasCells[b].rect)

-----------------------------------------------------------------------------
(* Properties of the uniform contract *)

MaterialPrograms == {"flat", "texture", "no_light", "light_multipass", "light_singlepass"}

\* C30: every uniform a render path uploads to its program is declared by the
\* program, and every uniform the program reads on every fragment is
\* uploaded by the path before it draws
C30_UniformContract ==
    \A i \in 1..Len(calls) :
        (calls[i].ret = "end" /\ calls[i].program \in MaterialPrograms) =>
            /\ \A j \in 1..Len(calls[i].uploads) :
                   calls[i].uploads[j].name \in ProgramUniforms(calls[i].program)
            /\ \A name \in UniformsRead(calls[i].program) : calls[i].u[name] # Stale


-----------------------------------------------------------------------------
(* Properties of the lit path's exit and of its multipass draws *)

\* C31: every invocation of renderMeshWithMaterialLight that issued a draw
\* call returns with blending disabled, polygon mode FILL and depth function
\* LESS, whatever the alpha mode, the pass mode, the lights and the wireframe
C31_LitPathExitState ==
    \A i \in 1..Len(calls) :
        (calls[i].path = "light" /\ calls[i].draws > 0) =>
            /\ ~calls[i].exit.blend
            /\ calls[i].exit.polygon_mode = "FILL"
            /\ calls[i].exit.depth_func = "LESS"

\* a wireframe frame in multipass mode in which a Blend mesh was drawn twice
\* by the lit path, so that blending, LINE mode and LEQUAL were all set
C31_Witness ==
    \E i \in 1..Len(calls) :
        /\ calls[i].path = "light" /\ calls[i].draws >= 2
        /\ calls[i].args.alpha_mode = BLEND
        /\ calls[i].args.is_multipass /\ calls[i].args.render_wireframe
        /\ \E k \in 1..Len(log) :
               /\ log[k].op = "draw" /\ log[k].call = i
               /\ log[k].state.blend
               /\ log[k].state.polygon_mode = "LINE"
               /\ log[k].state.depth_func = "LEQUAL"


-----------------------------------------------------------------------------
(* Properties of the render mode around the shadow generator *)

\* the render mode generateShadowmaps returns with when it is called on the
\* lights of the current scene with render_mode = mode
ModeAfterGenerator(mode) ==
    generateShadowmaps(
        CollectScene([M("g0") EXCEPT !.r.render_mode = mode], camera_current)
    ).r.render_mode

\* C32: every path invocation of a shadow pass runs with render_mode FLAT, the
\* generator returns with the render_mode it was called with, for every mode
\* and every light list, and every path invocation of the main colour pass
\* runs with the render_mode the frame was started with
C32_ShadowPassesForceFlat ==
    /\ \A i \in 1..Len(calls) :
           calls[i].fbo # 0 =>
               calls[i].args.render_mode = FLAT /\ calls[i].path = "flat"
    /\ \A mode \in RenderModes : ModeAfterGenerator(mode) = mode
    /\ \A i \in 1..Len(calls) :
           calls[i].fbo = 0 => calls[i].args.render_mode = renderer.render_mode

\* a LIGHTS frame with a shadow pass that drew a mesh by the flat path and a
\* main pass that drew by the lit path
C32_Witness ==
    /\ renderer.render_mode = LIGHTS
    /\ \E i, j \in 1..Len(calls) :
           /\ i < j
           /\ calls[i].fbo # 0 /\ calls[i].path = "flat" /\ calls[i].draws = 1
           /\ calls[j].fbo = 0 /\ calls[j].path = "light" /\ calls[j].draws > 0


\* the blend state of the draws d of one mesh: the first as the material
\* selects it, the later ones additive
MaterialThenAdditive(d, alpha_mode) ==
    \A k \in 1..Len(d) :
        IF k = 1
        THEN /\ d[k].state.blend = (alpha_mode = BLEND)
             /\ alpha_mode = BLEND => d[k].blend_func = <<"SRC_ALPHA", "ONE_MINUS_SRC_ALPHA">>
        ELSE /\ d[k].state.blend
             /\ d[k].blend_func = <<"SRC_ALPHA", "ONE">>

\* C33: in multipass mode the first draw call of a mesh is issued with the
\* blend state of its material (off for Opaque and Mask, source alpha /
\* one minus source alpha for Blend) and every later draw call of the mesh
\* with blending on and blend function (source alpha, one)
C33_MultipassBlendSequence ==
    \A i \in 1..Len(calls) :
        (calls[i].path = "light" /\ calls[i].args.is_multipass) =>
            MaterialThenAdditive(DrawsOfCall(log, i), calls[i].args.alpha_mode)

\* a multipass frame that drew an Opaque, a Mask and a Blend mesh twice each
C33_Witness ==
    \A mode \in {OPAQUE, MASK, BLEND} :
        \E i \in 1..Len(calls) :
            /\ calls[i].path = "light" /\ calls[i].args.is_multipass
            /\ calls[i].args.alpha_mode = mode
            /\ Len(DrawsOfCall(log, i)) = 2


-----------------------------------------------------------------------------
(* Properties of the per-frame records *)

\* C34: the RenderCall objects allocated and not released are at most as many
\* as the visible prefab entities of the current frame
C34_RenderCallsDiscarded ==
    render_calls_live <= Cardinality(VisiblePrefabs)


-----------------------------------------------------------------------------
(* Properties of the traversal of the node tree *)

\* the nodes of a tree, each named by the child indexes that lead to it
RECURSIVE TreePaths(_)
TreePaths(node) ==
    {<<>>} \cup
    UNION {{<<i>> \o p : p \in TreePaths(node.children[i])} : i \in 1..Len(node.children)}

RECURSIVE NodeAt(_, _)
NodeAt(node, p) == IF p = <<>> THEN node ELSE NodeAt(node.children[Head(p)], Tail(p))

\* the node at p and all its ancestors are visible, it has a mesh and a
\* material, and its bounding box passes the frustum test of the camera
ToBeRendered(root, p, camera) ==
    /\ \A k \in 0..Len(p) : NodeAt(root, SubSeq(p, 1, k)).visible
    /\ ~NodeAt(root, p).mesh.null
    /\ ~NodeAt(root, p).material.null
    /\ testBoxInFrustum(camera, NodeAt(root, p).pos, NodeAt(root, p).mesh.radius)

NodesToRender(camera) ==
    UNION {{NodeAt(scene.entities[idx].root, p).name :
               p \in {q \in TreePaths(scene.entities[idx].root) :
                         ToBeRendered(scene.entities[idx].root, q, camera)}} :
           idx \in VisiblePrefabs}

\* the invocations of the mesh paths in the pass drawn into framebuffer f
MeshCallsOfPass(f) ==
    {i \in 1..Len(calls) : calls[i].fbo = f /\ calls[i].path \in {"flat", "texture", "light"}}

PathOfMode(render_mode) ==
    CASE render_mode = FLAT -> "flat" [] render_mode = TEXTURED -> "texture"
      [] OTHER -> "light"

\* the camera of the pass into framebuffer f: the main camera, or the shadow
\* camera whose view and projection the light of the pass has kept
CameraOfPass(f) == IF f = 0 THEN camera_current ELSE scene.entities[f].shadow_viewproj

\* the framebuffers of the passes of the frame
PassesOfFrame ==
    {0} \cup {log[k].light : k \in {j \in 1..Len(log) : log[j].op = "shadow_viewproj"}}

\* C35: in every pass of a frame a material path is invoked for exactly the
\* nodes that are visible with all their ancestors, have a mesh and a
\* material and pass the frustum test of the camera of the pass, once each:
\* children of a culled or meshless node are among them, children of an
\* invisible node are not; the path is the one of the render mode in force
C35_RenderNodeDispatch ==
    FrameRendered =>
        /\ \A f \in PassesOfFrame :
               /\ {calls[i].args.node : i \in MeshCallsOfPass(f)} =
                      NodesToRender(CameraOfPass(f))
               /\ Cardinality(MeshCallsOfPass(f)) =
                      Cardinality(NodesToRender(CameraOfPass(f)))
        /\ \A i \in 1..Len(calls) :
               calls[i].path \in {"flat", "texture", "light"} =>
                   /\ calls[i].path = PathOfMode(calls[i].args.render_mode)
                   /\ calls[i].fbo \in PassesOfFrame
        /\ \A i \in MeshCallsOfPass(0) : calls[i].args.render_mode = renderer.render_mode

\* a TEXTURED frame over the tree with a hidden, a meshless, a material-less
\* and a culled node: the main pass invoked the path for the root, the child
\* of the meshless node and the child of the culled node only, and the pass
\* of a Directional light, whose frustum holds no node, invoked none
C35_Witness ==
    /\ renderer.render_mode = TEXTURED
    /\ {calls[i].args.node : i \in MeshCallsOfPass(0)} = {"root", "leaf", "front"}
    /\ \E f \in PassesOfFrame : f # 0 /\ MeshCallsOfPass(f) = {}
    /\ \E f \in PassesOfFrame : f # 0 /\ MeshCallsOfPass(f) # {}


-----------------------------------------------------------------------------
(* Properties of the base colour and of the shadow passes *)

\* C36: in LIGHTS mode every mesh that reaches the lit path in the main
\* colour pass and finds its shader gets at least one draw call, also in
\* multipass mode when no light of a non-empty list overlaps the mesh
C36_EveryLitMeshDrawn ==
    \A i \in 1..Len(calls) : IsLitCall(calls[i]) => calls[i].draws >= 1


\* the draw calls of node n in the pass drawn into framebuffer f
DrawsOfNode(f, n) ==
    {k \in 1..Len(log) : log[k].op = "draw" /\ log[k].fbo = f /\ log[k].node = n}

\* C37: in each shadow pass every visible mesh inside the frustum of the
\* shadow camera gets one draw call, meshes of alpha mode Blend included
C37_ShadowPassDrawsEveryMesh ==
    \A f \in PassesOfFrame \ {0} :
        \A n \in NodesToRender(CameraOfPass(f)) : Cardinality(DrawsOfNode(f, n)) = 1


-----------------------------------------------------------------------------
(* Properties of the light term of the multipass program *)

\* C38: when the shadow flag of the light is not zero and the shadow factor of
\* the fragment is 0, the light adds nothing to the fragment, for a Spot and
\* for a Directional light
C38_ShadowFactorScalesEveryLight ==
    (/\ fragment # <<>>
     /\ fragment.lit
     /\ fragment.shadow_enabled # 0
     /\ fragment.light_type \in {SPOT, DIRECTIONAL}
     /\ fragment.lit_shadow_factor = 0)
        => fragment.diffuse.num = 0

====
